---- MODULE Spec2Model ----
(***************************************************************************)
(* A model of the digital-twin backend: the voice synthesis client         *)
(* (voice-service.ts) and the Slack webhook dispatcher with its in-memory  *)
(* conversation store (the Slack part of debate-generator.ts).             *)
(*                                                                         *)
(* Time is a millisecond clock `now` (Date.now()).  Every async function   *)
(* is cut at its awaits: one action per segment between two suspension     *)
(* points, so that segments of different calls and handlers interleave as  *)
(* they do on the single-threaded event loop.                              *)
(***************************************************************************)
EXTENDS Integers, Sequences, FiniteSets, TLC

VARIABLES
    now,                \* Date.now(), in ms
    apiKey,             \* VoiceService.apiKey is non-empty
    lastCallTimestamp,  \* VoiceService.lastCallTimestamp
    calls,              \* the synthesizeSpeech invocations, by call id
    submitOrder,        \* call ids in the order synthesizeSpeech was invoked
    requests,           \* provider requests (fetch) in the order they fired
    signingSecret,      \* SLACK_SIGNING_SECRET ("" when unset)
    botToken,           \* SLACK_BOT_TOKEN is non-empty
    routes,             \* the routes registerSlackRoutes registered
    userConversations,  \* the Map userId -> conversation context
    reqs,               \* the inbound HTTP requests, by request id
    isConversationActive,   \* VoiceService.isConversationActive
    loops               \* the generateConversation loops, by loop id

voiceVars == <<apiKey, lastCallTimestamp, calls, submitOrder, requests>>

slackVars == <<signingSecret, botToken, routes, userConversations, reqs>>

scriptVars == <<isConversationActive, loops>>

vars == <<now, voiceVars, slackVars, scriptVars>>

-----------------------------------------------------------------------------
(* Bounds of the model.                                                    *)

NumCalls == 2           \* overlapping synthesizeSpeech calls (SpecRate)
TickUnit == 500         \* ms the clock advances in one Tick
MaxTicks == 2           \* Ticks in one behaviour
StartNow == 1000500     \* Date.now() when the process starts
MaxHistory == 2         \* a request arrives while every history is shorter
MaxRounds == 2          \* the largest maxTurnsPerSpeaker given to generateDebate

(* Program constants.                                                      *)

RateLimitDelay == 1000  \* voice-service.ts:9
MaxChars == 600         \* voice-service.ts:35
RetryChars == 120       \* voice-service.ts:147

-----------------------------------------------------------------------------
(* Texts are sequences of character codes.  MkText(n) is a text of n       *)
(* characters in which neighbouring characters differ, so that a prefix is *)
(* told apart from any other slice of the same length.                     *)

MkText(n) == [i \in 1 .. n |-> 97 + (i % 7)]

Ellipsis == <<46, 46, 46>>

\* `undefined` where a string is expected (no character code is negative)
Undefined == <<-1>>

Min(a, b) == IF a < b THEN a ELSE b

\* String.prototype.substring(0, n) / slice(0, n) for 0 <= n
Substring(s, n) == SubSeq(s, 1, Min(n, Len(s)))

\* a cut that also takes a text of exactly maxChars characters
TruncatedTextFrom600(text) ==
    IF Len(text) >= MaxChars THEN Substring(text, MaxChars) \o Ellipsis ELSE text

\* voice-service.ts:35-38  truncatedText
TruncatedText(text) ==
    IF Len(text) > MaxChars THEN Substring(text, MaxChars) \o Ellipsis ELSE text

\* a retry that sends the truncated text again
ShortTextNotCut(text) == TruncatedText(text)

\* voice-service.ts:147  shortText
ShortText(text) == Substring(text, RetryChars)

\* voice-service.ts:41  the rate-limit test on timeSinceLastCall
MustWait(timeSinceLastCall) == timeSinceLastCall < RateLimitDelay

\* voice-service.ts:42  the setTimeout delay
WaitFor(timeSinceLastCall) == RateLimitDelay - timeSinceLastCall

StatusText(status) ==
    CASE status = 401 -> "401"
      [] status = 429 -> "429"
      [] status = 500 -> "500"
      [] OTHER -> "other"

\* the fallback descriptor { fallback: true, text, persona, reason }
Fallback(text, persona, reason) ==
    [kind |-> "fallback", text |-> text, persona |-> persona, reason |-> reason]

\* voice-service.ts:31
MissingKeyResult(text, persona) == Fallback(text, persona, "missing_api_key")

\* voice-service.ts:159
ApiErrorResult(text, persona, status) ==
    Fallback(text, persona, "api_error_" \o StatusText(status))

\* a synthesizeSpeech without the catch: the exception leaves the call
CatchResultRethrown(text, persona) == [kind |-> "rejected"]

\* voice-service.ts:169-172  the catch around the whole body
CatchResult(text, persona) == Fallback(text, persona, "exception")

\* voice-service.ts:168
AudioResult(bytes) == [kind |-> "audio", bytes |-> bytes]

NoResult == [kind |-> "none"]

NoResponse == [ok |-> FALSE, status |-> 0, quota |-> FALSE, bodyUsed |-> FALSE]

(* What the provider can answer to one request: a success, or a            *)
(* non-success whose body holds or does not hold "quota_exceeded".         *)
ErrStatuses == {401, 429}
ProviderResponses ==
    {[ok |-> TRUE, status |-> 200, quota |-> FALSE, bodyUsed |-> FALSE]}
    \cup {[ok |-> FALSE, status |-> s, quota |-> q, bodyUsed |-> FALSE] :
            s \in ErrStatuses, q \in BOOLEAN}

\* the audio the provider synthesizes for a payload text
AudioFor(payloadText) == <<Len(payloadText)>>

(* The inputs of the callers: texts around the two cuts (120 and 600       *)
(* characters), each with a persona.                                       *)
VoiceInputs ==
    {[text |-> MkText(0), persona |-> "Steve Jobs"],
     [text |-> MkText(RetryChars + 1), persona |-> "Albert Einstein"],
     [text |-> MkText(MaxChars), persona |-> "Steve Jobs"],
     [text |-> MkText(MaxChars + 1), persona |-> "Fei-Fei Li"],
     [text |-> Undefined, persona |-> "Steve Jobs"]}

-----------------------------------------------------------------------------
(* VoiceService.synthesizeSpeech, cut at its awaits.  pc of a call:        *)
(*   idle      not invoked yet                                             *)
(*   waiting   line 42, suspended on the rate-limit setTimeout             *)
(*   fetch1    line 141, first provider request in flight                  *)
(*   readErr1  line 145, reading the body of the non-success response      *)
(*   fetch2    line 148, retry request in flight                           *)
(*   readErr   line 153, reading the body of the final non-success response*)
(*   readAudio line 163, reading the audio of the success response         *)
(*   done      returned `result`                                           *)

IdleCall ==
    [pc |-> "idle", text |-> <<>>, persona |-> "", wakeAt |-> 0,
     resp |-> NoResponse, result |-> NoResult]

Returned(call, result) == [call EXCEPT !.pc = "done", !.result = result]

\* voice-service.ts:118-133  makeRequest: the fetch is issued when it is called
Request(c, nth, payloadText) ==
    [call |-> c, nth |-> nth, at |-> now, text |-> payloadText]

\* voice-service.ts:45-141  after the rate-limit wait: issue the first request
FirstRequest(c, call) ==
    /\ requests' = Append(requests, Request(c, 1, TruncatedText(call.text)))
    /\ calls' = [calls EXCEPT ![c] = [call EXCEPT !.pc = "fetch1"]]

\* a key check that lets every call through
MissingKeyIgnored(key) == FALSE

\* voice-service.ts:29  !this.apiKey
MissingKey(key) == ~key

\* voice-service.ts:23-43  the call, up to its first suspension
Invoke(c, text, persona) ==
    LET call == [calls[c] EXCEPT !.text = text, !.persona = persona]
        timeSinceLastCall == now - lastCallTimestamp
    IN  /\ calls[c].pc = "idle"
        /\ submitOrder' = Append(submitOrder, c)
        /\ UNCHANGED <<now, apiKey, lastCallTimestamp>>
        /\ IF MissingKey(apiKey)
             THEN /\ calls' = [calls EXCEPT
                         ![c] = Returned(call, MissingKeyResult(text, persona))]
                  /\ UNCHANGED requests
             ELSE IF text = Undefined
             THEN \* line 36: text.length throws a TypeError, caught at line 169
                  /\ calls' = [calls EXCEPT
                         ![c] = Returned(call, CatchResult(text, persona))]
                  /\ UNCHANGED requests
             ELSE IF MustWait(timeSinceLastCall)
             THEN /\ calls' = [calls EXCEPT ![c] =
                         [call EXCEPT !.pc = "waiting",
                                      !.wakeAt = now + WaitFor(timeSinceLastCall)]]
                  /\ UNCHANGED requests
             ELSE FirstRequest(c, call)

\* the inputs of POST /api/test-voice, which requires a persona and a text
TestInputs == {in \in VoiceInputs : Len(in.text) = RetryChars + 1}

\* POST /api/synthesize (part_000:614-621): any text, requests may overlap
SynthesizeSpeech(c) ==
    /\ \E in \in VoiceInputs : Invoke(c, in.text, in.persona)
    /\ UNCHANGED <<slackVars, scriptVars>>

\* POST /api/test-voice (part_000:928-938)
TestVoice(c) ==
    /\ \E in \in TestInputs : Invoke(c, in.text, in.persona)
    /\ UNCHANGED <<slackVars, scriptVars>>

\* part_000:624-629, 940-950  the route handler resumes with the result and
\* answers; the invocation is over, and its slot and its records are dropped
Return(c) ==
    /\ calls[c].pc = "done"
    /\ calls' = [calls EXCEPT ![c] = IdleCall]
    /\ requests' = SelectSeq(requests, LAMBDA r : r.call # c)
    /\ submitOrder' = SelectSeq(submitOrder, LAMBDA d : d # c)
    /\ UNCHANGED <<now, apiKey, lastCallTimestamp, slackVars, scriptVars>>

\* voice-service.ts:42  the timer fires, not before its delay has elapsed
TimerFire(c) ==
    /\ calls[c].pc = "waiting"
    /\ now >= calls[c].wakeAt
    /\ FirstRequest(c, calls[c])
    /\ UNCHANGED <<now, apiKey, lastCallTimestamp, submitOrder, slackVars, scriptVars>>

\* voice-service.ts:152-163  a response has arrived: success or final error
AfterResponse(c, call, resp) ==
    IF resp.ok
    THEN /\ lastCallTimestamp' = now
         /\ calls' = [calls EXCEPT ![c] = [call EXCEPT !.pc = "readAudio", !.resp = resp]]
    ELSE /\ UNCHANGED lastCallTimestamp
         /\ calls' = [calls EXCEPT ![c] = [call EXCEPT !.pc = "readErr", !.resp = resp]]

\* voice-service.ts:141-145  the first fetch settles
FirstResponse(c) ==
    LET call == calls[c] IN
    /\ call.pc = "fetch1"
    /\ \E rejected \in BOOLEAN, resp \in ProviderResponses :
          IF rejected
          THEN /\ calls' = [calls EXCEPT
                      ![c] = Returned(call, CatchResult(call.text, call.persona))]
               /\ UNCHANGED lastCallTimestamp
          ELSE IF resp.ok
          THEN AfterResponse(c, call, resp)
          ELSE /\ calls' = [calls EXCEPT
                      ![c] = [call EXCEPT !.pc = "readErr1", !.resp = resp]]
               /\ UNCHANGED lastCallTimestamp
    /\ UNCHANGED <<now, apiKey, submitOrder, requests, slackVars, scriptVars>>

\* voice-service.ts:145-152  errorBody has been read (or the read threw)
ErrorBodyRead(c) ==
    LET call == calls[c]
        used == [call EXCEPT !.resp.bodyUsed = TRUE]
    IN
    /\ call.pc = "readErr1"
    /\ \E threw \in BOOLEAN :
          IF threw
          THEN /\ calls' = [calls EXCEPT
                      ![c] = Returned(call, CatchResult(call.text, call.persona))]
               /\ UNCHANGED requests
          ELSE IF call.resp.quota
          THEN /\ requests' = Append(requests, Request(c, 2, ShortText(call.text)))
               /\ calls' = [calls EXCEPT ![c] = [used EXCEPT !.pc = "fetch2"]]
          ELSE /\ calls' = [calls EXCEPT ![c] = [used EXCEPT !.pc = "readErr"]]
               /\ UNCHANGED requests
    /\ UNCHANGED <<now, apiKey, lastCallTimestamp, submitOrder, slackVars, scriptVars>>

\* voice-service.ts:148-152  the retry fetch settles
RetryResponse(c) ==
    LET call == calls[c] IN
    /\ call.pc = "fetch2"
    /\ \E rejected \in BOOLEAN, resp \in ProviderResponses :
          IF rejected
          THEN /\ calls' = [calls EXCEPT
                      ![c] = Returned(call, CatchResult(call.text, call.persona))]
               /\ UNCHANGED lastCallTimestamp
          ELSE AfterResponse(c, call, resp)
    /\ UNCHANGED <<now, apiKey, submitOrder, requests, slackVars, scriptVars>>

\* voice-service.ts:153-159  response.text() of the final non-success response;
\* a body that line 145 has read already cannot be read again: text() rejects
FinalErrorRead(c) ==
    LET call == calls[c] IN
    /\ call.pc = "readErr"
    /\ \E threw \in BOOLEAN :
          calls' = [calls EXCEPT ![c] =
              IF threw \/ call.resp.bodyUsed
              THEN Returned(call, CatchResult(call.text, call.persona))
              ELSE Returned(call,
                       ApiErrorResult(call.text, call.persona, call.resp.status))]
    /\ UNCHANGED <<now, apiKey, lastCallTimestamp, submitOrder, requests, slackVars, scriptVars>>

\* the payload text of the latest provider request of call c
LastPayload(c) ==
    LET idx == {i \in DOMAIN requests : requests[i].call = c}
        last == CHOOSE i \in idx : \A j \in idx : j <= i
    IN  requests[last].text

\* voice-service.ts:163-168  response.arrayBuffer()
AudioRead(c) ==
    LET call == calls[c] IN
    /\ call.pc = "readAudio"
    /\ \E threw \in BOOLEAN :
          calls' = [calls EXCEPT ![c] =
              IF threw
              THEN Returned(call, CatchResult(call.text, call.persona))
              ELSE Returned(call, AudioResult(AudioFor(LastPayload(c))))]
    /\ UNCHANGED <<now, apiKey, lastCallTimestamp, submitOrder, requests, slackVars, scriptVars>>

\* the clock
Tick ==
    /\ now < StartNow + MaxTicks * TickUnit
    /\ now' = now + TickUnit
    /\ UNCHANGED <<voiceVars, slackVars, scriptVars>>

(* The scripted conversation (voice-service.ts:254-290).  A loop is one   *)
(* run of generateConversation, started by startConversation.  What        *)
(* synthesizeSpeech does inside is modelled by the actions above; the loop *)
(* only awaits it, and the promise always settles (the catch at line 169   *)
(* returns a descriptor).  pc of a loop:                                   *)
(*   idle   not started                                                    *)
(*   synth  awaiting synthesizeSpeech                          (line 270)  *)
(*   pause  awaiting the timer                                 (line 277)  *)
(*   done   startConversation has returned                                 *)

NumLoops == 2           \* startConversation calls in one behaviour

Loops == 1 .. NumLoops

\* voice-service.ts:255  speakers
scriptSpeakers == <<"Leonardo da Vinci", "Steve Jobs">>

\* voice-service.ts:258-265  conversationScript.length
ScriptLines == 6

\* `spoke`: the synthesizeSpeech calls of the loop, in order; `stopped`:
\* stopConversation was called since the loop started
IdleLoop ==
    [pc |-> "idle", currentSpeakerIndex |-> 0, line |-> 0, spoke |-> <<>>,
     stopped |-> FALSE]

Running(loop) == loop.pc \in {"synth", "pause"}

\* voice-service.ts:267-273, 284-285  the head of the for loop: the next line
\* of the script is spoken when there is one and the flag is set; else the
\* loop is over and startConversation returns
NextLine(loop, active) ==
    IF loop.line < ScriptLines /\ active
    THEN [loop EXCEPT !.pc = "synth", !.line = @ + 1,
                      !.spoke = Append(@, [persona |-> scriptSpeakers[loop.currentSpeakerIndex + 1],
                                           line |-> loop.line + 1])]
    ELSE [loop EXCEPT !.pc = "done"]

\* voice-service.ts:281-286  startConversation, up to the first await; called
\* when no conversation is active
StartConversation(l) ==
    /\ loops[l].pc = "idle"
    /\ ~isConversationActive
    /\ LET begun == NextLine(IdleLoop, TRUE) IN
       /\ loops' = [loops EXCEPT ![l] = begun]
       /\ isConversationActive' = TRUE
    /\ UNCHANGED <<now, voiceVars, slackVars>>

\* voice-service.ts:270-275  synthesizeSpeech has settled: the speaker
\* changes and the pause begins
SpeechSettled(l) ==
    /\ loops[l].pc = "synth"
    /\ loops' = [loops EXCEPT ![l] =
          [@ EXCEPT !.pc = "pause",
                    !.currentSpeakerIndex = (@ + 1) % Len(scriptSpeakers)]]
    /\ UNCHANGED <<now, voiceVars, slackVars, isConversationActive>>

\* voice-service.ts:277, 267-273, 285  the pause is over: the next line, or
\* the end of the loop, after which startConversation clears the flag
PauseOver(l) ==
    /\ loops[l].pc = "pause"
    /\ LET next == NextLine(loops[l], isConversationActive) IN
       /\ loops' = [loops EXCEPT ![l] = next]
       /\ isConversationActive' = IF next.pc = "done" THEN FALSE
                                  ELSE isConversationActive
    /\ UNCHANGED <<now, voiceVars, slackVars>>

\* voice-service.ts:288-290  stopConversation, called while a loop runs
StopConversation ==
    /\ \E l \in Loops : Running(loops[l])
    /\ isConversationActive' = FALSE
    /\ loops' = [l \in Loops |->
                    IF Running(loops[l]) THEN [loops[l] EXCEPT !.stopped = TRUE]
                    ELSE loops[l]]
    /\ UNCHANGED <<now, voiceVars, slackVars>>

\* the state after `new VoiceService()` (voice-service.ts:5-21), with
\* `slots` the invocations that may be in progress at once
VoiceStart(slots) ==
    /\ now = StartNow
    /\ apiKey \in BOOLEAN
    /\ lastCallTimestamp = 0
    /\ calls = [c \in slots |-> IdleCall]
    /\ submitOrder = <<>>
    /\ requests = <<>>
    /\ isConversationActive = FALSE
    /\ loops = [l \in Loops |-> IdleLoop]

\* the Slack integration left out of a behaviour
SlackOff ==
    /\ signingSecret = ""
    /\ botToken = FALSE
    /\ routes = {}
    /\ userConversations = <<>>
    /\ reqs = <<>>

(* SpecVoice: the service under a caller that sends any text and awaits    *)
(* each call before the next one (slot 1 is reused).                       *)
OneAtATime == {1}

InitVoice == VoiceStart(OneAtATime) /\ SlackOff

NextVoice ==
    \/ Tick
    \/ \E c \in OneAtATime :
          \/ SynthesizeSpeech(c)
          \/ TimerFire(c)
          \/ FirstResponse(c)
          \/ ErrorBodyRead(c)
          \/ RetryResponse(c)
          \/ FinalErrorRead(c)
          \/ AudioRead(c)
          \/ Return(c)

SpecVoice == InitVoice /\ [][NextVoice]_vars

(* SpecRate: the service under NumCalls overlapping calls of one text.     *)
Overlapping == 1 .. NumCalls

InitRate == VoiceStart(Overlapping) /\ SlackOff

NextRate ==
    \/ Tick
    \/ \E c \in Overlapping :
          \/ TestVoice(c)
          \/ TimerFire(c)
          \/ FirstResponse(c)
          \/ ErrorBodyRead(c)
          \/ RetryResponse(c)
          \/ FinalErrorRead(c)
          \/ AudioRead(c)
          \/ Return(c)

SpecRate == InitRate /\ [][NextRate]_vars

(* SpecScript: the scripted conversation, started when none is active and  *)
(* stopped at any time while a loop runs.                                  *)
InitScript == VoiceStart(OneAtATime) /\ SlackOff

NextScript ==
    \/ StopConversation
    \/ \E l \in Loops :
          \/ StartConversation(l)
          \/ SpeechSettled(l)
          \/ PauseOver(l)

SpecScript == InitScript /\ [][NextScript]_vars

-----------------------------------------------------------------------------
(* Claims about the voice synthesis client.                                *)

\* the indices in `requests` of the provider requests of call c
RequestsOf(c, log) == {i \in DOMAIN log : log[i].call = c}

Abs(x) == IF x < 0 THEN -x ELSE x

\* C1: the provider requests of any two synthesizeSpeech calls fire at
\* instants at least 1000 ms apart.
C1_RequestsSpaced ==
    \A i, j \in DOMAIN requests :
        requests[i].call # requests[j].call
            => Abs(requests[i].at - requests[j].at) >= RateLimitDelay

\* C2: calls fire their first provider request in submission order: when a
\* call has fired its first request, every call submitted before it has
\* fired its own first request earlier.
C2_SubmissionOrder ==
    \A i, j \in DOMAIN submitOrder :
        LET a == submitOrder[i]
            b == submitOrder[j]
        IN  (i < j /\ RequestsOf(b, requests) # {})
                => \E k \in RequestsOf(a, requests) :
                       \A l \in RequestsOf(b, requests) : k < l

\* C3: a call retries exactly when the body of its first, non-success
\* response has been read and holds the quota marker; the retry carries the
\* first 120 characters of the original text; no call makes more than two
\* provider requests.
C3_QuotaRetry ==
    [][\A c \in DOMAIN calls :
          LET call == calls[c]
              before == Cardinality(RequestsOf(c, requests))
              after == Cardinality(RequestsOf(c, requests'))
              retried ==
                  /\ calls'[c].pc = "fetch2"
                  /\ after = 2
                  /\ requests' = Append(requests,
                         [call |-> c, nth |-> 2, at |-> now,
                          text |-> SubSeq(call.text, 1, Min(RetryChars, Len(call.text)))])
              threw ==
                  /\ calls'[c].pc = "done"
                  /\ calls'[c].result.kind = "fallback"
                  /\ calls'[c].result.reason = "exception"
                  /\ after = before
          IN  /\ after <= 2
              /\ (call.pc = "readErr1" /\ calls'[c].pc # "readErr1" /\ call.resp.quota)
                    => retried \/ threw
              /\ (after > before /\ before >= 1)
                    => call.pc = "readErr1" /\ ~call.resp.ok /\ call.resp.quota
       ]_vars

\* C3 witness: a call whose text is longer than 120 characters has retried.
C3_Witness ==
    \E c \in DOMAIN calls :
        /\ calls[c].pc = "fetch2"
        /\ Len(calls[c].text) > RetryChars
        /\ Cardinality(RequestsOf(c, requests)) = 2

FallbackReasons ==
    {"missing_api_key", "exception"}
        \cup {"api_error_" \o StatusText(s) : s \in ErrStatuses}

\* C4: a call that has returned has returned audio bytes or a fallback
\* descriptor, never a rejection; the reason of a fallback is one of
\* missing_api_key, api_error_<status>, exception, and its text and persona
\* are the ones the call was given; a call that has not returned has no result.
C4_OneResultShape ==
    \A c \in DOMAIN calls :
        LET call == calls[c] IN
        IF call.pc = "done"
        THEN \/ /\ call.result.kind = "audio"
                /\ DOMAIN call.result = {"kind", "bytes"}
             \/ /\ call.result.kind = "fallback"
                /\ DOMAIN call.result = {"kind", "text", "persona", "reason"}
                /\ call.result.reason \in FallbackReasons
                /\ call.result.text = call.text
                /\ call.result.persona = call.persona
        ELSE call.result = NoResult

\* C4 witness: a call with a text longer than 600 characters has returned the
\* fallback of a non-success retry response.
C4_Witness ==
    \E c \in DOMAIN calls :
        /\ calls[c].pc = "done"
        /\ calls[c].result.kind = "fallback"
        /\ calls[c].result.reason = "api_error_429"
        /\ Len(calls[c].text) > MaxChars
        /\ Cardinality(RequestsOf(c, requests)) = 2

\* C16: the text of a call's first provider request is the input text when
\* that has at most 600 characters, and otherwise its first 600 characters
\* followed by "..." (603 characters); whether the call had to wait on the
\* rate limiter makes no difference.
C16_Truncation ==
    \A i \in DOMAIN requests :
        LET sent == requests[i].text
            text == calls[requests[i].call].text
        IN  requests[i].nth = 1 =>
              IF Len(text) <= 600
              THEN sent = text
              ELSE /\ Len(sent) = 603
                   /\ \A k \in 1 .. 600 : sent[k] = text[k]
                   /\ \A k \in 601 .. 603 : sent[k] = 46

\* C16 witness: a call with a text of 601 characters has sent its first
\* request after waiting on the rate limiter.
C16_Witness ==
    \E i \in DOMAIN requests :
        LET call == calls[requests[i].call] IN
        /\ requests[i].nth = 1
        /\ Len(call.text) = 601
        /\ Len(requests[i].text) = 603
        /\ call.wakeAt > StartNow
        /\ requests[i].at >= call.wakeAt

\* C18: without an API key a call returns the fallback with reason
\* missing_api_key at once: it makes no provider request, does not wait on
\* the rate limiter and leaves lastCallTimestamp as it is.
C18_MissingKey ==
    [][~apiKey =>
          /\ requests' = <<>>
          /\ lastCallTimestamp' = lastCallTimestamp
          /\ \A c \in DOMAIN calls :
                /\ calls'[c].pc \in {"idle", "done"}
                /\ calls'[c].wakeAt = 0
                /\ (calls[c].pc = "idle" /\ calls'[c].pc # "idle") =>
                      /\ calls'[c].pc = "done"
                      /\ calls'[c].result
                            = [kind |-> "fallback", text |-> calls'[c].text,
                               persona |-> calls'[c].persona,
                               reason |-> "missing_api_key"]
      ]_vars

\* C18 witness: without an API key, a call with a text of 601 characters has
\* returned the missing_api_key fallback after the clock has advanced.
C18_Witness ==
    /\ ~apiKey
    /\ now > StartNow
    /\ \E c \in DOMAIN calls :
          /\ calls[c].pc = "done"
          /\ Len(calls[c].text) = 601
          /\ calls[c].result.kind = "fallback"
          /\ calls[c].result.reason = "missing_api_key"

\* C19: lastCallTimestamp is written only when a provider response, first
\* or retry, is a success; a call that ends in a fallback descriptor has not
\* written it (the write is the step that takes the call to reading the
\* audio); its value never decreases.
C19_CursorOnSuccess ==
    [][/\ lastCallTimestamp' >= lastCallTimestamp
       /\ lastCallTimestamp' # lastCallTimestamp =>
             \E c \in DOMAIN calls :
                 /\ calls[c].pc \in {"fetch1", "fetch2"}
                 /\ calls'[c].pc = "readAudio"
                 /\ calls'[c].resp.ok
                 /\ lastCallTimestamp' = now
       /\ \A c \in DOMAIN calls :
             (calls[c].pc # "done" /\ calls'[c].pc = "done"
                  /\ calls'[c].result.kind = "fallback")
                => calls[c].pc # "readAudio"
      ]_vars

\* C20: a call whose final provider response is a non-success (the first
\* response without the quota marker, or the retry response) returns the
\* fallback with reason api_error_<status of that response>, not exception
\* (a response whose body was never read before may still fail to be read).
C20_ApiErrorReason ==
    [][\A c \in DOMAIN calls :
          (calls[c].pc = "readErr" /\ calls'[c].pc = "done") =>
              /\ calls'[c].result.kind = "fallback"
              /\ \/ calls'[c].result.reason
                       = "api_error_" \o StatusText(calls[c].resp.status)
                 \/ /\ ~calls[c].resp.bodyUsed
                    /\ calls'[c].result.reason = "exception"
      ]_vars

-----------------------------------------------------------------------------
(* The Slack integration (debate-generator.ts:429-1292).                   *)

ReplayWindow == 300     \* seconds: 60 * 5, debate-generator.ts:540
HexDigestLen == 64      \* characters of a sha256 hex digest, debate-generator.ts:545

\* the value of SLACK_SIGNING_SECRET when it is set
Secret == "shh"

\* debate-generator.ts:467-517  id, name and expertise[0] of each twin
DIGITAL_TWINS ==
    <<[id |-> "albert-einstein", name |-> "Albert Einstein", expertise |-> "Innovation"],
      [id |-> "elon-musk", name |-> "Elon Musk", expertise |-> "Innovation"],
      [id |-> "steve-jobs", name |-> "Steve Jobs", expertise |-> "Innovation"],
      [id |-> "leonardo-da-vinci", name |-> "Leonardo da Vinci", expertise |-> "Innovation"],
      [id |-> "walt-disney", name |-> "Walt Disney", expertise |-> "Creativity"],
      [id |-> "emad-mostaque", name |-> "Emad Mostaque", expertise |-> "Artificial Intelligence"],
      [id |-> "fei-fei-li", name |-> "Fei-Fei Li", expertise |-> "Artificial Intelligence"]>>

\* DIGITAL_TWINS.find((t) => t.id === id); name "undefined" when none is found
FindTwin(id) ==
    LET hits == {i \in DOMAIN DIGITAL_TWINS : DIGITAL_TWINS[i].id = id}
    IN  IF hits = {}
        THEN [id |-> "", name |-> "undefined", expertise |-> ""]
        ELSE DIGITAL_TWINS[CHOOSE i \in hits : \A j \in hits : i <= j]

(* Header values.  A timestamp header is absent, the empty string, a       *)
(* decimal number of seconds, or a string Number() turns into NaN.  A      *)
(* signature header is absent or a string of character codes.              *)
NoHeader == [k |-> "absent", n |-> 0, s |-> <<>>]
EmptyHeader == [k |-> "str", n |-> 0, s |-> <<>>]
NumHeader(n) == [k |-> "num", n |-> n, s |-> <<>>]
NaNHeader == [k |-> "nan", n |-> 0, s |-> <<>>]
StrHeader(s) == [k |-> "str", n |-> 0, s |-> s]

\* !timestamp, !signature: undefined and "" are falsy
Falsy(h) == h.k = "absent" \/ (h.k = "str" /\ h.s = <<>>)

RECURSIVE Pow(_, _)
Pow(b, e) == IF e = 0 THEN 1 ELSE b * Pow(b, e - 1)

(* HMAC-SHA256 as a keyed function without collisions on the inputs of the *)
(* model: the digest spells, in its last hex digits, a number that encodes *)
(* the key, the timestamp string and the raw body.                         *)
HmacCode(key, timestamp, rawBody) ==
    LET keyCode == IF key = Secret THEN 1 ELSE 2
        tsCode == CASE timestamp.k = "num" -> timestamp.n
                    [] timestamp.k = "nan" -> 16383
                    [] OTHER -> 16382
    IN  (keyCode * 16384 + tsCode) * 64 + rawBody

\* debate-generator.ts:541-545  createHmac("sha256", key).update(sigBase).digest("hex")
HmacHex(key, timestamp, rawBody) ==
    [i \in 1 .. HexDigestLen |->
        IF HexDigestLen - i >= 7
        THEN (3 * i) % 16
        ELSE (HmacCode(key, timestamp, rawBody) \div Pow(16, HexDigestLen - i)) % 16]

\* debate-generator.ts:546  `v0=${hmac}`
ExpectedSignature(key, timestamp, rawBody) ==
    <<118, 48, 61>> \o HmacHex(key, timestamp, rawBody)

\* crypto.timingSafeEqual: throws a RangeError when the byte lengths differ
TimingSafeEqual(a, b) ==
    IF Len(a) # Len(b) THEN "throws" ELSE IF a = b THEN "true" ELSE "false"

\* a replay guard that rejects old timestamps only
TooOldPastOnly(timestamp) ==
    /\ timestamp.k # "nan"
    /\ now - 1000 * timestamp.n > 1000 * ReplayWindow

\* debate-generator.ts:540  the replay guard; a comparison with NaN is false
TooOld(timestamp) ==
    /\ timestamp.k # "nan"
    /\ Abs(now - 1000 * timestamp.n) > 1000 * ReplayWindow

\* debate-generator.ts:533-549  "true", "false", or "throws"
verifySlackSignature(rawBody, timestamp, signature) ==
    IF signingSecret = "" \/ Falsy(timestamp) \/ Falsy(signature) THEN "false"
    ELSE IF TooOld(timestamp) THEN "false"
    ELSE TimingSafeEqual(ExpectedSignature(signingSecret, timestamp, rawBody),
                         signature.s)

\* a registration that needs the signing secret for every route
registerSlackRoutesGated(secret) ==
    IF secret = "" THEN {} ELSE {"POST /slack", "POST /slack/webhook"}

\* debate-generator.ts:1151-1291  the routes registerSlackRoutes registers
registerSlackRoutes(secret) ==
    {"POST /slack"} \cup (IF secret = "" THEN {} ELSE {"POST /slack/webhook"})

-----------------------------------------------------------------------------
(* Message texts are sequences of tokens: a mention, a blank, or a word.   *)

\* debate-generator.ts:923  the tokens /<@[UW][A-Z0-9]+>/ matches
Mentions == {"<@U0BOT>", "<@W7>"}

StripMentions(text) == SelectSeq(text, LAMBDA t : t \notin Mentions)

RECURSIVE TrimStart(_)
TrimStart(text) ==
    IF text # <<>> /\ Head(text) = " " THEN TrimStart(Tail(text)) ELSE text

RECURSIVE TrimEnd(_)
TrimEnd(text) ==
    IF text # <<>> /\ text[Len(text)] = " "
    THEN TrimEnd(SubSeq(text, 1, Len(text) - 1))
    ELSE text

\* String.prototype.trim
Trim(text) == TrimEnd(TrimStart(text))

\* debate-generator.ts:923  cleanText
CleanText(text) == Trim(StripMentions(text))

\* debate-generator.ts:725-749  generatePersonaResponse
generatePersonaResponse(persona, userMessage) ==
    LET twin == FindTwin(persona) IN
    IF twin.id = ""
    THEN [reply |-> "not_found", name |-> "", about |-> <<>>, expertise |-> ""]
    ELSE [reply |-> "as", name |-> twin.name, about |-> userMessage,
          expertise |-> twin.expertise]

-----------------------------------------------------------------------------
(* The conversation store (debate-generator.ts:520-531, 712-722).          *)

NoPersona == ""     \* selectedPersona undefined

NoConversations == [u \in {} |-> 0]

\* a store that hands out a new context on every access
getUserConversationFresh(convs, userId) ==
    [u \in DOMAIN convs \cup {userId} |->
        IF u = userId
        THEN [selectedPersona |-> NoPersona, conversationHistory |-> <<>>,
              lastActivity |-> now]
        ELSE convs[u]]

\* debate-generator.ts:712-722  getUserConversation: the map after the call
getUserConversation(convs, userId) ==
    [u \in DOMAIN convs \cup {userId} |->
        IF u = userId
        THEN IF userId \in DOMAIN convs
             THEN [convs[u] EXCEPT !.lastActivity = now]
             ELSE [selectedPersona |-> NoPersona, conversationHistory |-> <<>>,
                   lastActivity |-> now]
        ELSE convs[u]]

UserEntry(content) == [role |-> "user", content |-> content]

\* an assistant entry that does not say whose reply it is
AssistantEntryUntagged(content, persona) ==
    [role |-> "assistant", content |-> content, persona |-> NoPersona]

AssistantEntry(content, persona) ==
    [role |-> "assistant", content |-> content, persona |-> persona]

\* a store with one history for all users
PushHistoryShared(convs, userId, entries) ==
    [u \in DOMAIN convs |-> [convs[u] EXCEPT !.conversationHistory = @ \o entries]]

\* a history that takes new entries at its front
PushHistoryFront(convs, userId, entries) ==
    [convs EXCEPT ![userId].conversationHistory = entries \o @]

\* conversationHistory.push(...entries) on the context of userId
PushHistory(convs, userId, entries) ==
    [convs EXCEPT ![userId].conversationHistory = @ \o entries]

\* an exchange stored reply first
ExchangeAnswerFirst(convs, userId, message) ==
    LET persona == convs[userId].selectedPersona IN
    <<AssistantEntry(generatePersonaResponse(persona, message), persona),
      UserEntry(message)>>

\* an exchange of which only the reply is kept
ExchangeReplyOnly(convs, userId, message) ==
    LET persona == convs[userId].selectedPersona IN
    <<AssistantEntry(generatePersonaResponse(persona, message), persona)>>

\* debate-generator.ts:794-802, 972-980, 1034-1042  the exchange appended
Exchange(convs, userId, message) ==
    LET persona == convs[userId].selectedPersona IN
    <<UserEntry(message),
      AssistantEntry(generatePersonaResponse(persona, message), persona)>>

-----------------------------------------------------------------------------
(* Inbound HTTP requests.  A request records what its handler did, in      *)
(* order, in `events`:                                                     *)
(*   respond   a response was sent (res.send, res.json, res.sendStatus)    *)
(*   resend    a response was attempted after one had been sent; Express   *)
(*             throws ERR_HTTP_HEADERS_SENT                                *)
(*   store     getUserConversation was called                              *)
(*   out       a request to the Slack API was issued (fetch)               *)
(*   failed    the fetch of the latest `out` rejected                      *)
(*   unhandled a promise rejected with nothing awaiting or catching it     *)

Respond(status, ctype, body) ==
    [k |-> "respond", status |-> status, ctype |-> ctype, body |-> body]

Resend(status) == [k |-> "resend", status |-> status]

StoreEv == [k |-> "store"]

\* conversationHistory.push of n entries
Pushed(n) == [k |-> "pushed", n |-> n]

Out(api, what) == [k |-> "out", api |-> api, what |-> what]

Failed == [k |-> "failed"]

\* voiceService.synthesizeSpeech was called
Called == [k |-> "call"]

Unhandled == [k |-> "unhandled"]

(* The body of a request, parsed: the fields the handlers read.            *)
NoChallenge == [t |-> "undefined", s |-> ""]
StringChallenge(s) == [t |-> "string", s |-> s]
NumberChallenge == [t |-> "number", s |-> ""]

NoEvent ==
    [type |-> "none", user |-> "", channel_type |-> "", bot |-> FALSE,
     hasText |-> FALSE, text |-> <<>>]

\* action.value of a generate_voice button: absent, or a string that is or
\* is not JSON
NoValue == [json |-> "absent", text |-> Undefined, persona |-> ""]

NoAction == [id |-> "", option |-> "", value |-> NoValue]

\* the `payload` field of an interactive request
NoPayload ==
    [present |-> FALSE, json |-> "ok", hasUser |-> FALSE, user |-> "",
     action |-> NoAction]

NoBody ==
    [type |-> "", challenge |-> NoChallenge, event |-> NoEvent,
     payload |-> NoPayload, command |-> "", text |-> <<>>, user_id |-> ""]

NoInput ==
    [raw |-> 0, body |-> NoBody, timestamp |-> NoHeader, signature |-> NoHeader]

FreeReq ==
    [pc |-> "free", route |-> "", in |-> NoInput, events |-> <<>>,
     via |-> "", user |-> "", msg |-> <<>>, sent |-> FALSE]

NewRequest(route, in) == [FreeReq EXCEPT !.pc = "run", !.route = route, !.in = in]

Emit(req, e) == [req EXCEPT !.events = Append(@, e)]

Done(req) == [req EXCEPT !.pc = "done"]

HasResponded(req) == \E i \in DOMAIN req.events : req.events[i].k = "respond"

\* debate-generator.ts:551-614  postSlackMessage, postEphemeralMessage,
\* uploadSlackFile: return at once without a bot token, else fetch; the
\* caller awaits at `pc`
AwaitPost(req, api, what, pc) ==
    [(IF botToken THEN Emit(req, Out(api, what)) ELSE req)
        EXCEPT !.pc = pc, !.sent = botToken]

\* how the awaited call can settle: only a fetch can reject
Settles(req) == IF req.sent THEN BOOLEAN ELSE {TRUE}

Settled(req, ok) == IF ok THEN req ELSE Emit(req, Failed)

\* the POST /slack handler that answers 500 when the event handler throws
CaughtAnswered(req) == Done(Emit(req, Resend(500)))

\* debate-generator.ts:1178-1182  the catch of POST /slack: logs
Caught(req) == Done(req)

\* debate-generator.ts:1283-1287  the catch of POST /slack/webhook: logs and
\* answers 500; when a response has been sent already, res.send throws
WebhookCaught(req) ==
    IF HasResponded(req)
    THEN Done(Emit(req, Resend(500)))
    ELSE Done(Emit(req, Respond(500, "text/html", "Internal error")))

\* an exception leaves the code that runs for `req`: the route's catch takes
\* it, but nothing takes it in the unawaited async function of a slash
\* command (debate-generator.ts:786-817, 872-894)
Thrown(req) ==
    CASE req.via = "event" -> Caught(req)
      [] req.via = "command" -> Done(Emit(req, Unhandled))
      [] OTHER -> WebhookCaught(req)

\* debate-generator.ts:941-987, 1004-1049  the conversation part of
\* handleAppMention and handleDirectMessage, up to the first fetch:
\* <<the request, the store>>
Converse(req, convs, user, message) ==
    LET got == getUserConversation(convs, user)
        r1 == [Emit(req, StoreEv) EXCEPT !.user = user, !.msg = message]
    IN  IF got[user].selectedPersona = NoPersona
        THEN <<AwaitPost(r1, "chat.postMessage", "picker", "pick_post"), got>>
        ELSE <<AwaitPost(Emit(r1, Pushed(2)), "chat.postMessage", "reply", "reply_post"),
               PushHistory(got, user, Exchange(got, user, message))>>

\* an ignored event that still looks up the sender's context
IgnoredTouched(req, convs, event) == <<Done(req), getUserConversation(convs, event.user)>>

\* debate-generator.ts:907-914, 1002  an event no handler works on: a message
\* outside a direct conversation, a bot's message, an unknown type
Ignored(req, convs, event) == <<Done(req), convs>>

\* debate-generator.ts:898-916, 919-939, 998-1002  handleSlackEvent up to the
\* first fetch: <<the request, the store>>
handleSlackEvent(req, convs, event) ==
    CASE event.type = "app_mention" ->
            IF ~event.hasText
            THEN \* text.replace throws a TypeError
                 <<Thrown(req), convs>>
            ELSE IF CleanText(event.text) = <<>>
            THEN <<AwaitPost(req, "chat.postMessage", "help", "help_post"), convs>>
            ELSE Converse(req, convs, event.user, CleanText(event.text))
      [] event.type = "message" ->
            IF event.channel_type = "im" /\ ~event.bot
            THEN Converse(req, convs, event.user, event.text)
            ELSE Ignored(req, convs, event)
      [] OTHER -> Ignored(req, convs, event)

\* a POST /slack that takes any string for a challenge
ChallengeOkAnyString(challenge) == challenge.t = "string"

\* debate-generator.ts:1160  typeof challenge === "string" && challenge.length > 0
ChallengeOk(challenge) == challenge.t = "string" /\ challenge.s # ""

\* res.sendStatus(200)
Ack(req) == Emit(req, Respond(200, "text/plain", "OK"))

\* debate-generator.ts:1156-1188  the handler of POST /slack up to the first
\* fetch: <<the request, the store>>
slackHandler(req, convs) ==
    LET body == req.in.body IN
    IF body.type = "url_verification"
    THEN IF ChallengeOk(body.challenge)
         THEN <<Done(Emit(req, Respond(200, "text/plain", body.challenge.s))), convs>>
         ELSE <<Done(Emit(req, Respond(400, "text/plain", "missing_challenge"))), convs>>
    ELSE IF body.type = "event_callback" /\ body.event.type # "none"
    THEN handleSlackEvent([Ack(req) EXCEPT !.via = "event"], convs, body.event)
    ELSE <<Done(Ack(req)), convs>>

\* a select_persona that leaves the selection as it was
SelectedIgnored(convs, userId, option) == convs

\* debate-generator.ts:1074  userConv.selectedPersona = selectedPersona
Selected(convs, userId, option) == [convs EXCEPT ![userId].selectedPersona = option]

\* debate-generator.ts:1060-1149  handleInteractivePayload up to its first
\* await: <<the request, the store>>; pc "voice_call" asks for synthesizeSpeech
handleInteractivePayload(req, convs, payload) ==
    LET acked == [Emit(req, Respond(200, "", "")) EXCEPT !.via = "interactive"]
        userId == payload.user
        got == getUserConversation(convs, userId)
        r1 == [Emit(acked, StoreEv) EXCEPT !.user = userId]
        action == payload.action
    IN  IF ~payload.hasUser
        THEN \* payload.user.id throws a TypeError
             <<Thrown(acked), convs>>
        ELSE CASE action.id = "select_persona" ->
                    IF action.option = ""
                    THEN <<Done(r1), got>>
                    ELSE <<AwaitPost(r1, "chat.postEphemeral", "selected", "eph_post"),
                           Selected(got, userId, action.option)>>
               [] action.id = "generate_voice" ->
                    IF action.value.json = "bad"
                    THEN \* JSON.parse throws, caught at line 1108
                         <<AwaitPost(r1, "chat.postEphemeral", "voice_error", "eph_post"),
                           got>>
                    ELSE <<[r1 EXCEPT !.pc = "voice_call"], got>>
               [] action.id = "continue_chat" ->
                    <<AwaitPost(r1, "chat.postEphemeral", "continue", "eph_post"), got>>
               [] action.id = "switch_persona" ->
                    <<AwaitPost(r1, "chat.postEphemeral", "picker", "eph_post"),
                      [got EXCEPT ![userId].selectedPersona = NoPersona]>>
               [] action.id = "start_chat" ->
                    <<AwaitPost(r1, "chat.postEphemeral", "picker", "eph_post"), got>>
               [] OTHER -> <<Done(r1), got>>

\* debate-generator.ts:752-818  handleChatCommand up to the first fetch
handleChatCommand(req, convs, body) ==
    LET message == Trim(body.text)
        userId == body.user_id
        got == getUserConversation(convs, userId)
        r1 == [Emit(req, StoreEv) EXCEPT !.user = userId, !.msg = message,
                                         !.via = "command"]
    IN  IF message = <<>>
        THEN <<Done(Emit(r1, Respond(200, "application/json", "choose_persona"))), got>>
        ELSE IF got[userId].selectedPersona = NoPersona
        THEN <<Done(Emit(r1, Respond(200, "application/json", "select_first"))), got>>
        ELSE <<AwaitPost(Emit(Emit(r1, Respond(200, "text/html", "thinking")),
                              Pushed(2)),
                         "chat.postMessage", "reply", "reply_post"),
               PushHistory(got, userId, Exchange(got, userId, message))>>

\* debate-generator.ts:821-857  handlePersonasCommand
handlePersonasCommand(req) ==
    Done(Emit([req EXCEPT !.via = "command"],
              Respond(200, "application/json", "personas")))

\* debate-generator.ts:860-895, 45-86  handleDebateCommand up to the first
\* fetch; generateDebate is called without audio and resolves at once
handleDebateCommand(req, body) ==
    LET r1 == [req EXCEPT !.via = "command"] IN
    IF Trim(body.text) = <<>>
    THEN Done(Emit(r1, Respond(200, "text/html", "provide_topic")))
    ELSE AwaitPost(Emit(r1, Respond(200, "text/html", "generating")),
                   "chat.postMessage", "debate", "debate_post")

\* debate-generator.ts:1215-1288  the handler of POST /slack/webhook up to its
\* first await: <<the request, the store>>
webhookHandler(req, convs) ==
    LET body == req.in.body
        verdict == verifySlackSignature(req.in.raw, req.in.timestamp,
                                        req.in.signature)
        passed == [req EXCEPT !.via = "verified"]
    IN  IF verdict = "throws"
        THEN <<WebhookCaught(req), convs>>
        ELSE IF verdict = "false"
        THEN <<Done(Emit(req, Respond(401, "text/html", "Invalid signature"))), convs>>
        ELSE IF body.type = "url_verification"
        THEN IF body.challenge.t = "string"
             THEN <<Done(Emit(passed, Respond(200, "text/plain", body.challenge.s))),
                    convs>>
             ELSE <<Done(Emit(passed, Respond(400, "application/json",
                                              "missing_challenge"))), convs>>
        ELSE IF body.payload.present
        THEN IF body.payload.json = "bad"
             THEN \* JSON.parse throws
                  <<WebhookCaught(passed), convs>>
             ELSE handleInteractivePayload(passed, convs, body.payload)
        ELSE CASE body.command = "/chat" -> handleChatCommand(passed, convs, body)
               [] body.command = "/personas" -> <<handlePersonasCommand(passed), convs>>
               [] body.command = "/debate" -> <<handleDebateCommand(passed, body), convs>>
               [] OTHER -> <<Done(Emit(passed, Respond(200, "text/html", "help"))),
                             convs>>

-----------------------------------------------------------------------------
(* The inputs of POST /slack.                                              *)

Challenges ==
    {NoChallenge, StringChallenge(""), StringChallenge("abc123"), NumberChallenge}

Events ==
    {[NoEvent EXCEPT !.type = "app_mention", !.user = "U1", !.hasText = TRUE,
                     !.text = <<"<@U0BOT>", " ", "hello">>],
     [NoEvent EXCEPT !.type = "app_mention", !.user = "U1", !.hasText = TRUE,
                     !.text = <<" ", "<@U0BOT>", " ">>],
     [NoEvent EXCEPT !.type = "app_mention", !.user = "U1"],
     [NoEvent EXCEPT !.type = "message", !.user = "U2", !.channel_type = "im",
                     !.hasText = TRUE, !.text = <<"hello">>],
     [NoEvent EXCEPT !.type = "message", !.user = "U2", !.channel_type = "im",
                     !.bot = TRUE, !.hasText = TRUE, !.text = <<"hello">>],
     [NoEvent EXCEPT !.type = "message", !.user = "U2", !.channel_type = "channel",
                     !.hasText = TRUE, !.text = <<"hello">>],
     [NoEvent EXCEPT !.type = "reaction_added", !.user = "U1"]}

SlackBodies ==
    {[NoBody EXCEPT !.type = "url_verification", !.challenge = c] : c \in Challenges}
    \cup {[NoBody EXCEPT !.type = "event_callback", !.event = e] :
            e \in Events \cup {NoEvent}}
    \cup {[NoBody EXCEPT !.type = "block_actions"]}

\* the signature headers a POST /slack may carry: none, or bogus ones
SlackHeaders ==
    {[timestamp |-> NoHeader, signature |-> NoHeader],
     [timestamp |-> NumHeader(0), signature |-> StrHeader(<<118, 48, 61>>)]}

(* The inputs of POST /slack/webhook: the raw body is its index in         *)
(* WebhookBodies.                                                          *)
Action(id) == [NoAction EXCEPT !.id = id]

Interactive(action) ==
    [NoBody EXCEPT !.payload = [present |-> TRUE, json |-> "ok", hasUser |-> TRUE,
                                user |-> "U1", action |-> action]]

Command(command, text) ==
    [NoBody EXCEPT !.command = command, !.text = text, !.user_id = "U1"]

\* the user whose requests race with each other
Racer == "U3"

\* the same body sent by another user
By(user, body) ==
    [body EXCEPT !.user_id = IF @ = "" THEN @ ELSE user,
                 !.payload.user = IF @ = "" THEN @ ELSE user]

WebhookBodies ==
    <<[NoBody EXCEPT !.type = "url_verification",
                     !.challenge = StringChallenge("abc123")],
      Interactive([Action("select_persona") EXCEPT !.option = "steve-jobs"]),
      Command("/personas", <<>>),
      [NoBody EXCEPT !.type = "url_verification", !.challenge = StringChallenge("")],
      [NoBody EXCEPT !.type = "url_verification"],
      [NoBody EXCEPT !.payload = [NoPayload EXCEPT !.present = TRUE, !.json = "bad"]],
      [NoBody EXCEPT !.payload = [NoPayload EXCEPT !.present = TRUE]],
      Interactive(Action("select_persona")),
      Interactive([Action("generate_voice") EXCEPT
                      !.value = [json |-> "ok", text |-> MkText(RetryChars + 1),
                                 persona |-> "steve-jobs"]]),
      Interactive([Action("generate_voice") EXCEPT
                      !.value = [NoValue EXCEPT !.json = "bad"]]),
      Interactive(Action("generate_voice")),
      Interactive([Action("continue_chat") EXCEPT
                      !.value = [NoValue EXCEPT !.persona = "steve-jobs"]]),
      Interactive(Action("switch_persona")),
      Interactive(Action("start_chat")),
      Interactive(Action("open_modal")),
      Interactive(NoAction),
      Command("/chat", <<>>),
      Command("/chat", <<" ", "hello">>),
      Command("/debate", <<" ">>),
      Command("/debate", <<"AI">>),
      Command("/help", <<>>),
      By("U2", Interactive([Action("select_persona") EXCEPT !.option = "fei-fei-li"])),
      By("U2", Interactive(Action("switch_persona"))),
      By("U2", Command("/chat", <<"hello">>)),
      By(Racer, Interactive([Action("select_persona") EXCEPT !.option = "steve-jobs"])),
      By(Racer, Interactive([Action("select_persona") EXCEPT !.option = "fei-fei-li"])),
      By(Racer, Interactive(Action("switch_persona"))),
      By(Racer, Command("/chat", <<"hi">>))>>

\* payload.user.id, user_id or event.user: the user a request is about
UserOf(body) ==
    IF body.payload.present THEN body.payload.user
    ELSE IF body.command # "" THEN body.user_id
    ELSE body.event.user

\* the webhook bodies a user sends
BodiesOf(user) == {i \in DOMAIN WebhookBodies : UserOf(WebhookBodies[i]) = user}

\* the bodies sent to probe the signature gate: the first three
GateBodies == 1 .. 3

\* Date.now() / 1000 when the process starts, rounded down
StartSec == StartNow \div 1000

\* the x-slack-timestamp headers: the start second, and seconds near and
\* beyond both ends of the replay window
Stamps ==
    {NoHeader, EmptyHeader, NaNHeader}
    \cup {NumHeader(StartSec + d) :
            d \in {0, 1 - ReplayWindow, 0 - ReplayWindow, ReplayWindow + 1,
                   0 - 2 * ReplayWindow}}

FreshStamps == {NumHeader(StartSec)}

\* how the sender made the x-slack-signature header
SigKinds == {"absent", "empty", "signed", "flipped", "other_body", "short", "long"}

SentKinds == {"signed", "short"}

\* the signature a sender who knows the secret computes
Signed(timestamp, raw) == ExpectedSignature(Secret, timestamp, raw)

\* the last hex digit replaced with another one
Flipped(sig) == [sig EXCEPT ![Len(sig)] = (@ + 1) % 16]

SignatureOf(kind, timestamp, raw) ==
    CASE kind = "absent" -> NoHeader
      [] kind = "empty" -> EmptyHeader
      [] kind = "signed" -> StrHeader(Signed(timestamp, raw))
      [] kind = "flipped" -> StrHeader(Flipped(Signed(timestamp, raw)))
      [] kind = "other_body" -> StrHeader(Signed(timestamp, raw + 1))
      [] kind = "short" -> StrHeader(SubSeq(Signed(timestamp, raw), 1, 6))
      [] kind = "long" -> StrHeader(Signed(timestamp, raw) \o <<48>>)

-----------------------------------------------------------------------------
(* The handlers as steps.  pc of a request:                                *)
(*   free        no request                                                *)
(*   help_post   awaiting the post of the help message                     *)
(*   pick_post   awaiting the post of the persona choices                  *)
(*   reply_post  awaiting the post of the persona's reply                  *)
(*   apology_post awaiting the post made by a catch block                  *)
(*   debate_post awaiting the post of the debate                           *)
(*   eph_post    awaiting an ephemeral post of handleInteractivePayload    *)
(*   voice_wait  awaiting synthesizeSpeech                                 *)
(*   upload_post awaiting the upload, or the post that replaces it         *)
(*   done        the handler and all it started are over                   *)

\* the requests that may be in progress at once
Inbound == {1}

\* the longest history of the racing user to which a request still arrives
MaxRace == 3

\* the synthesizeSpeech invocation a request makes
VoiceSlot == 1

\* no history is longer than the bound when a request arrives
HistoryRoom ==
    \A u \in DOMAIN userConversations :
        Len(userConversations[u].conversationHistory)
            < IF u = Racer THEN MaxRace ELSE MaxHistory

\* debate-generator.ts:1156-1188  a POST /slack arrives and is handled up to
\* its first fetch
SlackArrives(r, bodies, allHeaders) ==
    /\ "POST /slack" \in routes
    /\ HistoryRoom
    /\ \E body \in bodies, headers \in allHeaders :
         LET req == NewRequest("POST /slack",
                        [raw |-> 0, body |-> body,
                         timestamp |-> headers.timestamp,
                         signature |-> headers.signature])
             next == slackHandler(req, userConversations)
         IN  /\ reqs' = [reqs EXCEPT ![r] = next[1]]
             /\ userConversations' = next[2]
    /\ UNCHANGED <<now, voiceVars, signingSecret, botToken, routes, scriptVars>>

\* a sender of any body, with or without signature headers
SlackRequest(r) ==
    /\ reqs[r].pc = "free"
    /\ SlackArrives(r, SlackBodies, SlackHeaders)

\* debate-generator.ts:1215-1288  a POST /slack/webhook arrives and is handled
\* up to its first await
WebhookArrives(r, raws, stamps, kinds) ==
    /\ "POST /slack/webhook" \in routes
    /\ HistoryRoom
    /\ \E raw \in raws, timestamp \in stamps, kind \in kinds :
         LET req == NewRequest("POST /slack/webhook",
                        [raw |-> raw, body |-> WebhookBodies[raw],
                         timestamp |-> timestamp,
                         signature |-> SignatureOf(kind, timestamp, raw)])
             next == webhookHandler(req, userConversations)
             voiceData == req.in.body.payload.action.value
         IN  /\ userConversations' = next[2]
             /\ IF next[1].pc = "voice_call"
                THEN \* lines 1086-1089
                     /\ reqs' = [reqs EXCEPT ![r] =
                            [Emit(next[1], Called) EXCEPT !.pc = "voice_wait"]]
                     /\ Invoke(VoiceSlot, voiceData.text, FindTwin(voiceData.persona).name)
                ELSE /\ reqs' = [reqs EXCEPT ![r] = next[1]]
                     /\ UNCHANGED <<now, voiceVars>>
    /\ UNCHANGED <<signingSecret, botToken, routes, scriptVars>>

\* a sender that signs its requests, or sends a signature cut short
WebhookRequest(r) ==
    /\ reqs[r].pc = "free"
    /\ WebhookArrives(r, DOMAIN WebhookBodies \ (BodiesOf("U2") \cup BodiesOf(Racer)),
                      FreshStamps, SentKinds)

\* a sender that probes the signature gate
GateRequest(r) ==
    /\ reqs[r].pc = "free"
    /\ WebhookArrives(r, GateBodies, Stamps, SigKinds)

\* debate-generator.ts:937-938  the help message has been posted (or not)
HelpPosted(r) ==
    /\ reqs[r].pc = "help_post"
    /\ \E ok \in Settles(reqs[r]) :
         reqs' = [reqs EXCEPT ![r] = IF ok THEN Done(@) ELSE Thrown(Settled(@, ok))]
    /\ UNCHANGED <<now, voiceVars, signingSecret, botToken, routes, scriptVars, userConversations>>

\* persona choices after which the message is dropped
PickerPostedOnly(r) ==
    /\ reqs[r].pc = "pick_post"
    /\ \E ok \in Settles(reqs[r]) :
         reqs' = [reqs EXCEPT ![r] = IF ok THEN Done(@) ELSE Thrown(Settled(@, ok))]
    /\ UNCHANGED <<now, voiceVars, signingSecret, botToken, routes, scriptVars, userConversations>>

\* debate-generator.ts:957-961, 1019-1023  the persona choices have been
\* posted: the message is stored; a rejection leaves the handler
PickerPosted(r) ==
    /\ reqs[r].pc = "pick_post"
    /\ \E ok \in Settles(reqs[r]) :
         /\ reqs' = [reqs EXCEPT ![r] = IF ok THEN Done(Emit(@, Pushed(1)))
                                               ELSE Thrown(Settled(@, ok))]
         /\ userConversations' =
               IF ok
               THEN PushHistory(userConversations, reqs[r].user,
                                <<UserEntry(reqs[r].msg)>>)
               ELSE userConversations
    /\ UNCHANGED <<now, voiceVars, signingSecret, botToken, routes, scriptVars>>

\* debate-generator.ts:809-816, 987-994, 1049-1056  the reply has been posted;
\* a rejection is caught and the apology is posted
ReplyPosted(r) ==
    /\ reqs[r].pc = "reply_post"
    /\ \E ok \in Settles(reqs[r]) :
         reqs' = [reqs EXCEPT ![r] =
             IF ok
             THEN Done(@)
             ELSE AwaitPost(Settled(@, ok), "chat.postMessage", "apology",
                            "apology_post")]
    /\ UNCHANGED <<now, voiceVars, signingSecret, botToken, routes, scriptVars, userConversations>>

\* debate-generator.ts:878-893  the debate has been posted; no audio was
\* asked for, so nothing is uploaded; a rejection is caught and the failure
\* is posted
DebatePosted(r) ==
    /\ reqs[r].pc = "debate_post"
    /\ \E ok \in Settles(reqs[r]) :
         reqs' = [reqs EXCEPT ![r] =
             IF ok
             THEN Done(@)
             ELSE AwaitPost(Settled(@, ok), "chat.postMessage", "debate_failed",
                            "apology_post")]
    /\ UNCHANGED <<now, voiceVars, signingSecret, botToken, routes, scriptVars, userConversations>>

\* debate-generator.ts:812-816, 889-893, 990-993, 1052-1055  the post of a
\* catch block has settled; its rejection leaves the catch block
ApologyPosted(r) ==
    /\ reqs[r].pc = "apology_post"
    /\ \E ok \in Settles(reqs[r]) :
         reqs' = [reqs EXCEPT ![r] = IF ok THEN Done(@) ELSE Thrown(Settled(@, ok))]
    /\ UNCHANGED <<now, voiceVars, signingSecret, botToken, routes, scriptVars, userConversations>>

\* debate-generator.ts:1077-1081, 1110-1114, 1118-1145  an ephemeral post of
\* handleInteractivePayload has settled; its rejection leaves the handler
EphemeralPosted(r) ==
    /\ reqs[r].pc = "eph_post"
    /\ \E ok \in Settles(reqs[r]) :
         reqs' = [reqs EXCEPT ![r] = IF ok THEN Done(@) ELSE Thrown(Settled(@, ok))]
    /\ UNCHANGED <<now, voiceVars, signingSecret, botToken, routes, scriptVars, userConversations>>

\* debate-generator.ts:1086-1114  synthesizeSpeech has returned: audio is
\* uploaded, a fallback is reported; the invocation is over
\* a handler that uploads whatever synthesizeSpeech returned
DeliverUpload(req, result) == AwaitPost(req, "files.upload", "voice", "upload_post")

\* debate-generator.ts:1092-1114  what follows the result of synthesizeSpeech:
\* the upload of audio, the notice for a fallback, the catch for a rejection
Deliver(req, result) ==
    CASE result.kind = "audio" ->
            AwaitPost(req, "files.upload", "voice", "upload_post")
      [] result.kind = "fallback" ->
            AwaitPost(req, "chat.postEphemeral", "voice_unavailable", "upload_post")
      [] OTHER ->
            AwaitPost(req, "chat.postEphemeral", "voice_error", "eph_post")

VoiceReturned(r) ==
    LET result == calls[VoiceSlot].result IN
    /\ reqs[r].pc = "voice_wait"
    /\ calls[VoiceSlot].pc = "done"
    /\ reqs' = [reqs EXCEPT ![r] = Deliver(@, result)]
    /\ calls' = [calls EXCEPT ![VoiceSlot] = IdleCall]
    /\ requests' = SelectSeq(requests, LAMBDA q : q.call # VoiceSlot)
    /\ submitOrder' = SelectSeq(submitOrder, LAMBDA d : d # VoiceSlot)
    /\ UNCHANGED <<now, apiKey, lastCallTimestamp, signingSecret, botToken, routes, scriptVars,
                   userConversations>>

\* debate-generator.ts:1092-1114  the upload, or the post that replaces it,
\* has settled; a rejection is caught and the failure is posted
UploadPosted(r) ==
    /\ reqs[r].pc = "upload_post"
    /\ \E ok \in Settles(reqs[r]) :
         reqs' = [reqs EXCEPT ![r] =
             IF ok
             THEN Done(@)
             ELSE AwaitPost(Settled(@, ok), "chat.postEphemeral", "voice_error",
                            "eph_post")]
    /\ UNCHANGED <<now, voiceVars, signingSecret, botToken, routes, scriptVars, userConversations>>

\* the exchange is over: the request is forgotten
Release(r) ==
    /\ reqs[r].pc = "done"
    /\ reqs' = [reqs EXCEPT ![r] = FreeReq]
    /\ UNCHANGED <<now, voiceVars, signingSecret, botToken, routes, scriptVars, userConversations>>

\* debate-generator.ts:429-431, 520, 1151-1291  the state after the module is
\* loaded and registerSlackRoutes has run
SlackStart ==
    /\ signingSecret \in {"", Secret}
    /\ botToken \in BOOLEAN
    /\ routes = registerSlackRoutes(signingSecret)
    /\ userConversations = NoConversations
    /\ reqs = [r \in Inbound |-> FreeReq]

(* SpecSlack: the two Slack routes under senders that sign their webhook   *)
(* requests, one request at a time.                                        *)
InitSlack == VoiceStart(OneAtATime) /\ SlackStart

NextSlack ==
    \/ Tick
    \/ \E c \in OneAtATime :
          \/ TimerFire(c)
          \/ FirstResponse(c)
          \/ ErrorBodyRead(c)
          \/ RetryResponse(c)
          \/ FinalErrorRead(c)
          \/ AudioRead(c)
    \/ \E r \in Inbound :
          \/ SlackRequest(r)
          \/ WebhookRequest(r)
          \/ HelpPosted(r)
          \/ PickerPosted(r)
          \/ ReplyPosted(r)
          \/ DebatePosted(r)
          \/ ApologyPosted(r)
          \/ EphemeralPosted(r)
          \/ VoiceReturned(r)
          \/ UploadPosted(r)
          \/ Release(r)

SpecSlack == InitSlack /\ [][NextSlack]_vars

(* SpecGate: the signed webhook route under a sender that varies the       *)
(* timestamp and signature headers.                                        *)
InitGate == VoiceStart(OneAtATime) /\ SlackStart

NextGate ==
    \/ Tick
    \/ \E r \in Inbound :
          \/ GateRequest(r)
          \/ EphemeralPosted(r)
          \/ Release(r)

SpecGate == InitGate /\ [][NextGate]_vars

(* SpecPair: two users, each with one request in progress, whose handlers  *)
(* interleave at their awaits: mentions, direct messages, persona          *)
(* selections and /chat commands.                                          *)
Pair == {1, 2}

\* the user whose requests take slot r
SenderOf(r) == IF r = 1 THEN "U1" ELSE "U2"

\* the bodies that make a handler work on a context
Conversing(body) ==
    \/ body.payload.action.option # ""
    \/ body.payload.action.id = "switch_persona"
    \/ body.command = "/chat" /\ Trim(body.text) # <<>>
    \/ body.event.hasText /\ CleanText(body.event.text) # <<>> /\ ~body.event.bot

PairSlack(r) ==
    /\ reqs[r].pc = "free"
    /\ SlackArrives(r, {b \in SlackBodies : UserOf(b) = SenderOf(r) /\ Conversing(b)},
                    {[timestamp |-> NoHeader, signature |-> NoHeader]})

PairWebhook(r) ==
    /\ reqs[r].pc = "free"
    /\ WebhookArrives(r, {i \in BodiesOf(SenderOf(r)) : Conversing(WebhookBodies[i])},
                      FreshStamps, {"signed"})

InitPair ==
    /\ VoiceStart(OneAtATime)
    /\ signingSecret = Secret
    /\ botToken \in BOOLEAN
    /\ routes = registerSlackRoutes(signingSecret)
    /\ userConversations = NoConversations
    /\ reqs = [r \in Pair |-> FreeReq]

\* the clock, once while the two requests are in progress
PairTick ==
    /\ now < StartNow + TickUnit
    /\ Tick

NextPair ==
    \/ PairTick
    \/ \E r \in Pair :
          \/ PairSlack(r)
          \/ PairWebhook(r)
          \/ PickerPosted(r)
          \/ ReplyPosted(r)
          \/ ApologyPosted(r)
          \/ EphemeralPosted(r)
          \/ Release(r)

SpecPair == InitPair /\ [][NextPair]_vars

(* SpecSolo: both Slack routes with the signing secret set, one request at *)
(* a time, the clock advancing for as long as one rate-limit delay.        *)
InitSolo ==
    /\ VoiceStart(OneAtATime)
    /\ signingSecret = Secret
    /\ botToken \in BOOLEAN
    /\ routes = registerSlackRoutes(signingSecret)
    /\ userConversations = NoConversations
    /\ reqs = [r \in Inbound |-> FreeReq]

\* the clock, until one rate-limit delay has passed
SoloTick ==
    /\ now < StartNow + RateLimitDelay
    /\ Tick

NextSolo ==
    \/ SoloTick
    \/ \E c \in OneAtATime :
          \/ TimerFire(c)
          \/ FirstResponse(c)
          \/ ErrorBodyRead(c)
          \/ RetryResponse(c)
          \/ FinalErrorRead(c)
          \/ AudioRead(c)
    \/ \E r \in Inbound :
          \/ SlackRequest(r)
          \/ WebhookRequest(r)
          \/ HelpPosted(r)
          \/ PickerPosted(r)
          \/ ReplyPosted(r)
          \/ DebatePosted(r)
          \/ ApologyPosted(r)
          \/ EphemeralPosted(r)
          \/ VoiceReturned(r)
          \/ UploadPosted(r)
          \/ Release(r)

SpecSolo == InitSolo /\ [][NextSolo]_vars

-----------------------------------------------------------------------------
(* The REST routes (part_000:355-1096) and generateDebate.                 *)

\* part_000:703-806  the names of the roster the route answers from its catch
RouteFallbackAgents ==
    <<"Albert Einstein", "Elon Musk", "Emad Mostaque", "Fei-Fei Li",
      "Leonardo da Vinci", "Steve Jobs", "Walt Disney">>

\* debate-generator.ts:131-150  the names of the roster getAgents returns
\* from its catch
StorageFallbackAgents == <<"Albert Einstein", "Elon Musk">>

\* what db.select().from(agents) can settle with: rows, or a rejection
DbOutcomes ==
    {[ok |-> TRUE, rows |-> <<>>],
     [ok |-> TRUE, rows |-> <<"Ada Lovelace">>],
     [ok |-> FALSE, rows |-> <<>>]}

\* debate-generator.ts:125-153  DatabaseStorage.getAgents: what the promise
\* settles with
getAgents(outcome) ==
    IF outcome.ok
    THEN [rejected |-> FALSE, agents |-> outcome.rows]
    ELSE [rejected |-> FALSE, agents |-> StorageFallbackAgents]

DbFailed == [k |-> "db_failed"]

\* part_000:691-696, debate-generator.ts:126-127  GET /api/agents arrives;
\* the handler awaits actualStorage.getAgents(), which awaits the database
AgentsRequest(r) ==
    /\ reqs[r].pc = "free"
    /\ reqs' = [reqs EXCEPT ![r] =
          [NewRequest("GET /api/agents", NoInput) EXCEPT !.pc = "db_read"]]
    /\ UNCHANGED <<now, voiceVars, signingSecret, botToken, routes, scriptVars, userConversations>>

\* part_000:696-808  the read has settled and getAgents with it: the handler
\* answers
AgentsRead(r) ==
    /\ reqs[r].pc = "db_read"
    /\ reqs[r].route = "GET /api/agents"
    /\ \E outcome \in DbOutcomes :
         LET got == getAgents(outcome)
             seen == IF outcome.ok THEN reqs[r] ELSE Emit(reqs[r], DbFailed)
         IN  reqs' = [reqs EXCEPT ![r] =
                 IF got.rejected
                 THEN Done(Emit(seen, Respond(200, "application/json",
                                              RouteFallbackAgents)))
                 ELSE Done(Emit(seen, Respond(200, "application/json", got.agents)))]
    /\ UNCHANGED <<now, voiceVars, signingSecret, botToken, routes, scriptVars, userConversations>>

(* generateDebate (debate-generator.ts:20-86).  Texts are sequences of     *)
(* character codes; the fixed characters of a template are written as one  *)
(* code repeated, so a text keeps its template, its topic, its index and   *)
(* its length.                                                             *)

\* the characters of a speaker's name
Chars(speaker) ==
    CASE speaker = "Albert Einstein" ->
            <<65, 108, 98, 101, 114, 116, 32, 69, 105, 110, 115, 116, 101, 105, 110>>
      [] speaker = "Elon Musk" ->
            <<69, 108, 111, 110, 32, 77, 117, 115, 107>>
      [] speaker = "Steve Jobs" ->
            <<83, 116, 101, 118, 101, 32, 74, 111, 98, 115>>
      [] speaker = "Leonardo da Vinci" ->
            <<76, 101, 111, 110, 97, 114, 100, 111, 32, 100, 97, 32, 86, 105, 110, 99, 105>>
      [] speaker = "Walt Disney" ->
            <<87, 97, 108, 116, 32, 68, 105, 115, 110, 101, 121>>
      [] speaker = "Emad Mostaque" ->
            <<69, 109, 97, 100, 32, 77, 111, 115, 116, 97, 113, 117, 101>>
      [] speaker = "Fei-Fei Li" ->
            <<70, 101, 105, 45, 70, 101, 105, 32, 76, 105>>
      [] OTHER -> <<63>>

Filler(code, n) == [i \in 1 .. n |-> code]

\* the decimal digits of n > 0
RECURSIVE Digits(_)
Digits(n) == IF n < 10 THEN <<48 + n>> ELSE Digits(n \div 10) \o <<48 + (n % 10)>>

\* the white space String.prototype.trim removes (among the codes below 256)
WhiteSpace == {9, 10, 11, 12, 13, 32, 160}

RECURSIVE TrimStartChars(_)
TrimStartChars(text) ==
    IF text # <<>> /\ Head(text) \in WhiteSpace THEN TrimStartChars(Tail(text)) ELSE text

RECURSIVE TrimEndChars(_)
TrimEndChars(text) ==
    IF text # <<>> /\ text[Len(text)] \in WhiteSpace
    THEN TrimEndChars(SubSeq(text, 1, Len(text) - 1))
    ELSE text

\* String.prototype.trim on character codes
TrimChars(text) == TrimEndChars(TrimStartChars(text))

\* debate-generator.ts:26-36  craftPerspective
craftPerspective(speaker, topic, index) ==
    LET base == TrimChars(topic) IN
    CASE speaker = "Albert Einstein" -> Filler(69, 46) \o base \o Filler(69, 200)
      [] speaker = "Steve Jobs" -> Filler(74, 18) \o base \o Filler(74, 184)
      [] OTHER -> Chars(speaker) \o Filler(100, 17) \o Digits(index + 1)
                    \o Filler(100, 12) \o base \o Filler(100, 62)

\* debate-generator.ts:20-23
DEFAULT_SPEAKERS == <<"Albert Einstein", "Steve Jobs">>

\* an option that is given, or is not
Given(v) == [given |-> TRUE, v |-> v]
NotGiven == [given |-> FALSE, v |-> <<>>]
NoNumber == [given |-> FALSE, v |-> 0]
NoFlag == [given |-> FALSE, v |-> FALSE]

\* debate-generator.ts:46-51  the options with their defaults
SpeakersOf(options) ==
    IF options.speakers.given THEN options.speakers.v ELSE DEFAULT_SPEAKERS

MaxTurnsOf(options) ==
    IF options.maxTurnsPerSpeaker.given THEN options.maxTurnsPerSpeaker.v ELSE 1

IncludeAudioOf(options) ==
    IF options.includeAudio.given THEN options.includeAudio.v ELSE FALSE

\* a loop that gives every turn of a round the index of the round
TurnsPerRound(options) ==
    LET speakers == SpeakersOf(options)
        n == Len(speakers)
    IN  [k \in 1 .. MaxTurnsOf(options) * n |->
            LET round == (k - 1) \div n
                i == (k - 1) % n
            IN  [speaker |-> speakers[i + 1],
                 text |-> craftPerspective(speakers[i + 1], options.topic, round)]]

\* debate-generator.ts:53-62  the turns: for each round, for each speaker
Turns(options) ==
    LET speakers == SpeakersOf(options)
        n == Len(speakers)
    IN  [k \in 1 .. MaxTurnsOf(options) * n |->
            LET round == (k - 1) \div n
                i == (k - 1) % n
            IN  [speaker |-> speakers[i + 1],
                 text |-> craftPerspective(speakers[i + 1], options.topic,
                                           round * n + i)]]

\* debate-generator.ts:84  `*${t.speaker}:* ${t.text}`
Line(turn) == <<42>> \o Chars(turn.speaker) \o <<58, 42, 32>> \o turn.text

\* Array.prototype.join("\n")
RECURSIVE JoinLines(_)
JoinLines(lines) ==
    IF lines = <<>> THEN <<>>
    ELSE IF Len(lines) = 1 THEN lines[1]
    ELSE lines[1] \o <<10>> \o JoinLines(Tail(lines))

\* debate-generator.ts:84  combinedText
CombinedText(turns) == JoinLines([k \in DOMAIN turns |-> Line(turns[k])])

\* Buffer.concat
RECURSIVE Concat(_)
Concat(buffers) ==
    IF buffers = <<>> THEN <<>> ELSE Head(buffers) \o Concat(Tail(buffers))

(* The audio loop of generateDebate, in the `events` of the call:         *)
(*   synth    synthesizeSpeech was called for turn `turn`                  *)
(*   audio    it returned the bytes `bytes`, which were pushed             *)
(*   skipped  it returned a fallback descriptor, or threw                  *)
(*   result   generateDebate returned                                      *)
Synth(k) == [k |-> "synth", turn |-> k]

Audio(bytes) == [k |-> "audio", bytes |-> bytes]

Skipped == [k |-> "skipped"]

NoBuffer == [present |-> FALSE, bytes |-> <<>>]

\* the buffers pushed so far, in the order of the pushes
Buffers(events) ==
    LET pushed == SelectSeq(events, LAMBDA e : e.k = "audio")
    IN  [i \in DOMAIN pushed |-> pushed[i].bytes]

\* debate-generator.ts:80-85  audioBuffer and the result
DebateResult(options, events) ==
    [k |-> "result", topic |-> options.topic, turns |-> Turns(options),
     combinedText |-> CombinedText(Turns(options)),
     audioBuffer |-> IF Buffers(events) # <<>>
                     THEN [present |-> TRUE, bytes |-> Concat(Buffers(events))]
                     ELSE NoBuffer]

\* the options the callers of generateDebate give
DebateInputs ==
    {[topic |-> <<32, 65, 73, 32>>, speakers |-> sp, maxTurnsPerSpeaker |-> mt,
      includeAudio |-> ia] :
        sp \in {NotGiven, Given(<<>>), Given(<<"Elon Musk">>),
                Given(<<"Steve Jobs", "Elon Musk", "Albert Einstein">>)},
        mt \in {NoNumber, Given(0), Given(MaxRounds)},
        ia \in {NoFlag, Given(FALSE), Given(TRUE)}}

\* the number of synthesizeSpeech calls made so far
Synthesized(events) == Len(SelectSeq(events, LAMBDA e : e.k = "synth"))

\* debate-generator.ts:45-70  generateDebate is called: the turns are built,
\* and with audio the first turn is given to synthesizeSpeech
DebateCall(r) ==
    /\ reqs[r].pc = "free"
    /\ \E options \in DebateInputs :
         LET req == NewRequest("generateDebate", options)
             turns == Turns(options)
         IN  IF IncludeAudioOf(options) /\ turns # <<>>
             THEN /\ reqs' = [reqs EXCEPT ![r] =
                        [Emit(req, Synth(1)) EXCEPT !.pc = "debate_audio"]]
                  /\ Invoke(VoiceSlot, turns[1].text, turns[1].speaker)
             ELSE /\ reqs' = [reqs EXCEPT ![r] =
                        Done(Emit(req, DebateResult(options, <<>>)))]
                  /\ UNCHANGED <<now, voiceVars>>
    /\ UNCHANGED <<signingSecret, botToken, routes, scriptVars, userConversations>>

\* debate-generator.ts:69-78  synthesizeSpeech has settled: a Buffer is
\* pushed, anything else is skipped; the invocation is over
DebateTurnDone(r) ==
    LET result == calls[VoiceSlot].result IN
    /\ reqs[r].pc = "debate_audio"
    /\ calls[VoiceSlot].pc = "done"
    /\ reqs' = [reqs EXCEPT ![r] =
          [Emit(@, IF result.kind = "audio" THEN Audio(result.bytes) ELSE Skipped)
              EXCEPT !.pc = "debate_next"]]
    /\ calls' = [calls EXCEPT ![VoiceSlot] = IdleCall]
    /\ requests' = SelectSeq(requests, LAMBDA q : q.call # VoiceSlot)
    /\ submitOrder' = SelectSeq(submitOrder, LAMBDA d : d # VoiceSlot)
    /\ UNCHANGED <<now, apiKey, lastCallTimestamp, signingSecret, botToken, routes, scriptVars,
                   userConversations>>

\* a loop that a failed turn ends
MoreTurnsUnlessSkipped(events, turns) ==
    Synthesized(events) < Len(turns) /\ events[Len(events)].k # "skipped"

\* debate-generator.ts:67  for (const turn of turns)
MoreTurns(events, turns) == Synthesized(events) < Len(turns)

\* debate-generator.ts:67-85  the loop goes on with the next turn, or ends
\* and generateDebate returns
DebateNextTurn(r) ==
    LET options == reqs[r].in
        turns == Turns(options)
        next == Synthesized(reqs[r].events) + 1
    IN
    /\ reqs[r].pc = "debate_next"
    /\ IF MoreTurns(reqs[r].events, turns)
       THEN /\ reqs' = [reqs EXCEPT ![r] =
                  [Emit(@, Synth(next)) EXCEPT !.pc = "debate_audio"]]
            /\ Invoke(VoiceSlot, turns[next].text, turns[next].speaker)
       ELSE /\ reqs' = [reqs EXCEPT ![r] =
                  Done(Emit(@, DebateResult(options, @.events)))]
            /\ UNCHANGED <<now, voiceVars>>
    /\ UNCHANGED <<signingSecret, botToken, routes, scriptVars, userConversations>>

(* SpecApi: GET /api/agents and generateDebate, one at a time, over the    *)
(* voice client.                                                           *)
InitApi ==
    /\ VoiceStart(OneAtATime)
    /\ signingSecret = ""
    /\ botToken = FALSE
    /\ routes = registerSlackRoutes(signingSecret)
    /\ userConversations = NoConversations
    /\ reqs = [r \in Inbound |-> FreeReq]

NextApi ==
    \/ Tick
    \/ \E c \in OneAtATime :
          \/ TimerFire(c)
          \/ FirstResponse(c)
          \/ ErrorBodyRead(c)
          \/ RetryResponse(c)
          \/ FinalErrorRead(c)
          \/ AudioRead(c)
    \/ \E r \in Inbound :
          \/ AgentsRequest(r)
          \/ AgentsRead(r)
          \/ DebateCall(r)
          \/ DebateTurnDone(r)
          \/ DebateNextTurn(r)
          \/ Release(r)

SpecApi == InitApi /\ [][NextApi]_vars

-----------------------------------------------------------------------------
(* The voice a call of synthesizeSpeech selects (voice-service.ts:44-107). *)
(* Persona names are sequences of character codes here, so that            *)
(* toLowerCase, trim and includes are computed; voice ids are strings.     *)

\* voice-service.ts:45-53  personaVoiceMap, in the order of its keys
personaVoiceMap ==
    <<[name |-> "Leonardo da Vinci", id |-> "iLVmqjzCGGvqtMCk6vVQ"],
      [name |-> "Steve Jobs", id |-> "RScb7njQ3VwA2nyCsZX4"],
      [name |-> "Albert Einstein", id |-> "e2odxVHlmLJ5GY1yuWNl"],
      [name |-> "Elon Musk", id |-> "3ltnAVoovAIVA7uE9Zbz"],
      [name |-> "Walt Disney", id |-> "1KmhFCCzy2hRrIDMEXFZ"],
      [name |-> "Emad Mostaque", id |-> "OXihjRbFbxh4LfP9Wt5H"],
      [name |-> "Fei-Fei Li", id |-> "JL6vl3xyRi3Ly7WoywNO"]>>

\* voice-service.ts:56-71  personaAliases["Fei-Fei Li"]: "fei fei li",
\* "fei-fei li", "feifei li", "fi fi lee", "fei fei lee", "fei-fei lee",
\* "fifi li", "fei fei le", "fei-fei le", "fe fe li", "fe fe le", "fi fi li"
FeiFeiAliases ==
    <<<<102, 101, 105, 32, 102, 101, 105, 32, 108, 105>>,
      <<102, 101, 105, 45, 102, 101, 105, 32, 108, 105>>,
      <<102, 101, 105, 102, 101, 105, 32, 108, 105>>,
      <<102, 105, 32, 102, 105, 32, 108, 101, 101>>,
      <<102, 101, 105, 32, 102, 101, 105, 32, 108, 101, 101>>,
      <<102, 101, 105, 45, 102, 101, 105, 32, 108, 101, 101>>,
      <<102, 105, 102, 105, 32, 108, 105>>,
      <<102, 101, 105, 32, 102, 101, 105, 32, 108, 101>>,
      <<102, 101, 105, 45, 102, 101, 105, 32, 108, 101>>,
      <<102, 101, 32, 102, 101, 32, 108, 105>>,
      <<102, 101, 32, 102, 101, 32, 108, 101>>,
      <<102, 105, 32, 102, 105, 32, 108, 105>>>>

\* voice-service.ts:56-71  personaAliases
personaAliases == <<[canonical |-> "Fei-Fei Li", aliases |-> FeiFeiAliases]>>

(* personaVoiceMap is an object literal: besides its own keys it has the   *)
(* properties of Object.prototype.  Two of them, with the text each gives  *)
(* when it is put into the request URL: "constructor" and "__proto__".     *)
InheritedProperties ==
    <<[name |-> <<99, 111, 110, 115, 116, 114, 117, 99, 116, 111, 114>>,
       value |-> "function Object() { [native code] }"],
      [name |-> <<95, 95, 112, 114, 111, 116, 111, 95, 95>>,
       value |-> "[object Object]"]>>

\* null, undefined and "" where a voice id is expected: all falsy
Null == ""

NoVoiceId == [given |-> FALSE, v |-> ""]

\* String.prototype.toLowerCase on character codes
ToLowerCase(text) ==
    [i \in DOMAIN text |-> IF text[i] >= 65 /\ text[i] <= 90 THEN text[i] + 32 ELSE text[i]]

\* String.prototype.includes
Includes(text, part) ==
    \E i \in 0 .. Len(text) - Len(part) : SubSeq(text, i + 1, i + Len(part)) = part

\* the voice id of a key of personaVoiceMap
VoiceOf(key) ==
    LET i == CHOOSE i \in DOMAIN personaVoiceMap : personaVoiceMap[i].name = key
    IN  personaVoiceMap[i].id

\* voice-service.ts:76  personaVoiceMap[name]: an own key, an inherited
\* property, or undefined
Property(name) ==
    IF \E i \in DOMAIN personaVoiceMap : Chars(personaVoiceMap[i].name) = name
    THEN LET i == CHOOSE i \in DOMAIN personaVoiceMap :
                      Chars(personaVoiceMap[i].name) = name
         IN  personaVoiceMap[i].id
    ELSE IF \E i \in DOMAIN InheritedProperties : InheritedProperties[i].name = name
    THEN LET i == CHOOSE i \in DOMAIN InheritedProperties :
                      InheritedProperties[i].name = name
         IN  InheritedProperties[i].value
    ELSE Null

\* the first key of personaVoiceMap, in key order, that P holds of; 0: none
FirstKey(P(_)) ==
    LET found == {i \in DOMAIN personaVoiceMap : P(personaVoiceMap[i].name)}
    IN  IF found = {} THEN 0 ELSE CHOOSE i \in found : \A j \in found : i <= j

\* voice-service.ts:74-94  resolveVoiceIdForPersona
resolveVoiceIdForPersona(name) ==
    IF ~name.given \/ name.v = <<>> THEN Null
    ELSE IF Property(name.v) # Null THEN Property(name.v)
    ELSE
      LET normalized == TrimChars(ToLowerCase(name.v))
          same(key) == ToLowerCase(Chars(key)) = normalized
          contains(key) == \/ Includes(normalized, ToLowerCase(Chars(key)))
                           \/ Includes(ToLowerCase(Chars(key)), normalized)
          known(i) == \E a \in DOMAIN personaAliases[i].aliases :
                          personaAliases[i].aliases[a] = normalized
          listed == {i \in DOMAIN personaAliases : known(i)}
      IN  IF FirstKey(same) # 0 THEN personaVoiceMap[FirstKey(same)].id
          ELSE IF listed # {}
          THEN VoiceOf(personaAliases[CHOOSE i \in listed : \A j \in listed : i <= j].canonical)
          ELSE IF FirstKey(contains) # 0 THEN personaVoiceMap[FirstKey(contains)].id
          ELSE Null

\* "leonardo"
Leonardo == <<108, 101, 111, 110, 97, 114, 100, 111>>

\* voice-service.ts:96-107  selectedVoiceId
selectedVoiceId(persona, voiceId) ==
    LET explicit == IF voiceId.given THEN voiceId.v ELSE Null
        resolved == IF explicit # Null THEN explicit
                    ELSE resolveVoiceIdForPersona(persona)
        isLeonardo == persona.given /\ Includes(ToLowerCase(persona.v), Leonardo)
    IN  IF resolved # Null THEN resolved
        ELSE IF isLeonardo THEN "iLVmqjzCGGvqtMCk6vVQ" ELSE "RScb7njQ3VwA2nyCsZX4"

(* The personas given to synthesizeSpeech: the names of the map, the       *)
(* aliases, and                                                            *)
\*   'steve jobs'
\*   'ELON MUSK'
\*   '  Albert Einstein '
\*   'Fei-Fei Li\t'
\*   'FI FI LEE'
\*   ' fifi li'
\*   'Jobs'
\*   'Dr. Albert Einstein Jr'
\*   'musk'
\*   'e'
\*   ' '
\*   'leonardo dicaprio'
\*   'LEONARDO X'
\*   'Leonardo'
\*   'Marie Curie'
\*   'Walt'
\*   'constructor'
\*   '__proto__'
OtherPersonas ==
    <<<<115, 116, 101, 118, 101, 32, 106, 111, 98, 115>>,
      <<69, 76, 79, 78, 32, 77, 85, 83, 75>>,
      <<32, 32, 65, 108, 98, 101, 114, 116, 32, 69, 105, 110, 115, 116, 101, 105, 110, 32>>,
      <<70, 101, 105, 45, 70, 101, 105, 32, 76, 105, 9>>,
      <<70, 73, 32, 70, 73, 32, 76, 69, 69>>,
      <<32, 102, 105, 102, 105, 32, 108, 105>>,
      <<74, 111, 98, 115>>,
      <<68, 114, 46, 32, 65, 108, 98, 101, 114, 116, 32, 69, 105, 110, 115, 116, 101, 105, 110, 32, 74, 114>>,
      <<109, 117, 115, 107>>,
      <<101>>,
      <<32>>,
      <<108, 101, 111, 110, 97, 114, 100, 111, 32, 100, 105, 99, 97, 112, 114, 105, 111>>,
      <<76, 69, 79, 78, 65, 82, 68, 79, 32, 88>>,
      <<76, 101, 111, 110, 97, 114, 100, 111>>,
      <<77, 97, 114, 105, 101, 32, 67, 117, 114, 105, 101>>,
      <<87, 97, 108, 116>>,
      <<99, 111, 110, 115, 116, 114, 117, 99, 116, 111, 114>>,
      <<95, 95, 112, 114, 111, 116, 111, 95, 95>>>>

Range(seq) == {seq[i] : i \in DOMAIN seq}

Personas ==
    {Chars(personaVoiceMap[i].name) : i \in DOMAIN personaVoiceMap}
        \cup Range(FeiFeiAliases) \cup Range(OtherPersonas) \cup {<<>>}

\* the `persona` and `voiceId` arguments of a call
SelectionInputs ==
    [persona : {NotGiven} \cup {Given(p) : p \in Personas},
     voiceId : {NoVoiceId, [given |-> TRUE, v |-> ""],
                [given |-> TRUE, v |-> "custom-voice-id"]}]

Voice(id) == [k |-> "voice", id |-> id]

\* voice-service.ts:44-107  a call selects its voice (no await in between)
SelectVoice(r) ==
    /\ reqs[r].pc = "free"
    /\ \E in \in SelectionInputs :
          reqs' = [reqs EXCEPT ![r] =
              Done(Emit(NewRequest("selectedVoiceId", in),
                        Voice(selectedVoiceId(in.persona, in.voiceId))))]
    /\ UNCHANGED <<now, voiceVars, signingSecret, botToken, routes, scriptVars, userConversations>>

\* voice-service.ts:5-21, 29  the service after construction, with an API key
\* (without one no voice is selected); no request yet
InitSelect ==
    /\ VoiceStart(OneAtATime)
    /\ apiKey
    /\ signingSecret = ""
    /\ botToken = FALSE
    /\ routes = registerSlackRoutes(signingSecret)
    /\ userConversations = NoConversations
    /\ reqs = [r \in Inbound |-> FreeReq]

NextSelect ==
    \E r \in Inbound :
        \/ SelectVoice(r)
        \/ Release(r)

SpecSelect == InitSelect /\ [][NextSelect]_vars

-----------------------------------------------------------------------------
(* Claims about the Slack routes.                                          *)

OnSlack(req) == req.pc # "free" /\ req.route = "POST /slack"

OnWebhook(req) == req.pc # "free" /\ req.route = "POST /slack/webhook"

\* a step in which request r arrives and its handler runs to its first await
Arrives(r) == reqs[r].pc = "free" /\ reqs'[r].pc # "free"

\* the only thing the handler did is to answer with `status`
OnlyAnswered(req, status) ==
    /\ req.pc = "done"
    /\ Len(req.events) = 1
    /\ req.events[1].k = "respond"
    /\ req.events[1].status = status

Count(events, kinds) == Cardinality({i \in DOMAIN events : events[i].k \in kinds})

\* C5: a /slack/webhook request whose signature header is not the computed
\* v0=HMAC-SHA256(secret, "v0:<timestamp>:<rawBody>"), of whatever length,
\* is answered 401 and nothing else happens: no handler runs, no context is
\* touched, no outbound call is made.
C5_MismatchRejected ==
    \A r \in DOMAIN reqs :
        LET req == reqs[r]
            expected == StrHeader(ExpectedSignature(signingSecret, req.in.timestamp,
                                                    req.in.raw))
        IN  (OnWebhook(req) /\ req.in.signature # expected)
                => OnlyAnswered(req, 401)

\* more than 300 s from `at`, in the past or in the future
Stale(timestamp, at) ==
    /\ timestamp.k = "num"
    /\ \/ at - 1000 * timestamp.n > 300000
       \/ 1000 * timestamp.n - at > 300000

\* C6: when the timestamp is more than 300 s from the current time, past or
\* future, or the secret, the timestamp header or the signature header is
\* absent, verifySlackSignature returns false and /slack/webhook answers 401
\* without dispatching, even for a correct signature.  (The route exists
\* only with a secret: without one, verifySlackSignature is false for every
\* input and no request reaches the handler.)
C6_ReplayWindow ==
    [][/\ signingSecret = ""
            => \A raw \in GateBodies, timestamp \in Stamps, kind \in SigKinds :
                  verifySlackSignature(raw, timestamp,
                                       SignatureOf(kind, timestamp, raw)) = "false"
       /\ \A r \in DOMAIN reqs :
            LET in == reqs'[r].in IN
            (/\ Arrives(r)
             /\ reqs'[r].route = "POST /slack/webhook"
             /\ \/ Stale(in.timestamp, now)
                \/ in.timestamp.k = "absent"
                \/ in.signature.k = "absent")
                => /\ verifySlackSignature(in.raw, in.timestamp, in.signature) = "false"
                   /\ OnlyAnswered(reqs'[r], 401)
                   /\ userConversations' = userConversations
                   /\ UNCHANGED voiceVars
      ]_vars

\* C6 witness: a request stamped 10 minutes in the past and carrying the
\* correct signature for its timestamp and body has been answered 401.
C6_Witness ==
    \E r \in DOMAIN reqs :
        LET in == reqs[r].in IN
        /\ OnWebhook(reqs[r])
        /\ in.timestamp = NumHeader(StartSec - 2 * ReplayWindow)
        /\ in.signature = StrHeader(ExpectedSignature(signingSecret, in.timestamp, in.raw))
        /\ OnlyAnswered(reqs[r], 401)

\* C7: POST /slack with type url_verification answers 200, text/plain, the
\* challenge itself when the challenge is a non-empty string, and 400 when
\* it is absent, empty or no string; either way no context is created or
\* changed and no outbound call is made.
C7_UrlVerification ==
    [][\A r \in DOMAIN reqs :
          LET req == reqs'[r]
              challenge == req.in.body.challenge
          IN  (/\ Arrives(r)
               /\ req.route = "POST /slack"
               /\ req.in.body.type = "url_verification")
                  => /\ IF challenge.t = "string" /\ challenge.s # ""
                        THEN /\ req.pc = "done"
                             /\ req.events = <<Respond(200, "text/plain", challenge.s)>>
                        ELSE OnlyAnswered(req, 400)
                     /\ userConversations' = userConversations
                     /\ UNCHANGED voiceVars
      ]_vars

\* C7 witness: a url_verification with challenge "abc123" has been answered
\* while a conversation context exists.
C7_Witness ==
    \E r \in DOMAIN reqs :
        /\ OnSlack(reqs[r])
        /\ reqs[r].in.body.type = "url_verification"
        /\ reqs[r].in.body.challenge = StringChallenge("abc123")
        /\ reqs[r].events = <<Respond(200, "text/plain", "abc123")>>
        /\ DOMAIN userConversations # {}

\* C8: POST /slack is registered in every configuration and answers
\* url_verification and event_callback whatever the signature and timestamp
\* headers are; POST /slack/webhook is registered exactly when the signing
\* secret is non-empty.
C8_RouteGating ==
    /\ "POST /slack" \in routes
    /\ "POST /slack/webhook" \in routes <=> signingSecret # ""
    /\ \A r \in DOMAIN reqs :
          LET req == reqs[r]
              bare == NewRequest("POST /slack",
                          [req.in EXCEPT !.timestamp = NoHeader,
                                         !.signature = NoHeader])
          IN  (OnSlack(req) /\ req.in.body.type \in {"url_verification", "event_callback"})
                  => /\ req.events # <<>>
                     /\ req.events[1].k = "respond"
                     /\ req.events[1] = slackHandler(bare, userConversations)[1].events[1]

\* C8 witness: without signing secret and bot token, an event_callback that
\* carries a bogus signature header has been answered 200.
C8_Witness ==
    /\ signingSecret = ""
    /\ ~botToken
    /\ \E r \in DOMAIN reqs :
          /\ OnSlack(reqs[r])
          /\ reqs[r].in.body.type = "event_callback"
          /\ reqs[r].in.body.event.type = "app_mention"
          /\ reqs[r].in.signature # NoHeader
          /\ reqs[r].events[1] = Respond(200, "text/plain", "OK")

\* C9: an event_callback with an event on POST /slack is acknowledged with
\* 200 before any step of its processing (any access to the conversation
\* store, any outbound call), and no failure of the event handler changes
\* that response or makes a second one.
C9_AckFirst ==
    \A r \in DOMAIN reqs :
        LET req == reqs[r] IN
        (/\ OnSlack(req)
         /\ req.in.body.type = "event_callback"
         /\ req.in.body.event.type # "none")
            => /\ req.events # <<>>
               /\ req.events[1] = Respond(200, "text/plain", "OK")
               /\ Count(req.events, {"respond", "resend"}) = 1
               /\ Count(req.events, {"unhandled"}) = 0

\* C9 witness: the event handler has read the store, made an outbound call
\* that failed, and is over.
C9_Witness ==
    \E r \in DOMAIN reqs :
        LET req == reqs[r] IN
        /\ OnSlack(req)
        /\ req.pc = "done"
        /\ req.in.body.type = "event_callback"
        /\ Count(req.events, {"store"}) = 1
        /\ Count(req.events, {"out"}) >= 1
        /\ req.events[Len(req.events)].k = "failed"

\* C10: every verified, well-formed /slack/webhook request gets exactly one
\* response; an interactive payload is acknowledged with an empty 200 before its handler
\* touches the store or makes an outbound call; a failed outbound call
\* after the acknowledgment causes no second response attempt, no retry and
\* no unhandled rejection.
C10_OneResponse ==
    \A r \in DOMAIN reqs :
        LET req == reqs[r]
            payload == req.in.body.payload
            outs == {i \in DOMAIN req.events : req.events[i].k = "out"}
            wellFormed == payload.present => (payload.json = "ok" /\ payload.hasUser)
        IN  (OnWebhook(req) /\ req.via # "" /\ wellFormed)
                => /\ Count(req.events, {"respond"}) = 1
                   /\ Count(req.events, {"resend"}) = 0
                   /\ Count(req.events, {"unhandled"}) = 0
                   /\ payload.present => req.events[1] = Respond(200, "", "")
                   /\ \A i, j \in outs : i # j => req.events[i] # req.events[j]

-----------------------------------------------------------------------------
(* Claims about the conversation store.                                    *)

\* the user ids that reach the store
Users == {"U1", "U2"}

\* C11: getUserConversation creates the context, with empty history and no
\* persona, for a user that has none, and otherwise returns the existing one
\* with persona and history untouched (so does a second call); every call
\* sets lastActivity to the current time; the lastActivity of a context never
\* decreases and no context is ever dropped.
C11_StoreAccess ==
    [][/\ \A u \in Users :
            LET got == getUserConversation(userConversations, u) IN
            /\ DOMAIN got = DOMAIN userConversations \cup {u}
            /\ got[u].lastActivity = now
            /\ IF u \in DOMAIN userConversations
               THEN /\ got[u].selectedPersona = userConversations[u].selectedPersona
                    /\ got[u].conversationHistory
                          = userConversations[u].conversationHistory
               ELSE /\ got[u].selectedPersona = NoPersona
                    /\ got[u].conversationHistory = <<>>
            /\ \A v \in DOMAIN userConversations \ {u} : got[v] = userConversations[v]
            /\ getUserConversation(got, u) = got
       /\ \A u \in DOMAIN userConversations :
            /\ u \in DOMAIN userConversations'
            /\ userConversations'[u].lastActivity >= userConversations[u].lastActivity
       /\ \A r \in DOMAIN reqs :
            \* a step that accessed the store left the context refreshed
            Count(reqs'[r].events, {"store"}) > Count(reqs[r].events, {"store"})
                => /\ reqs'[r].user \in DOMAIN userConversations'
                   /\ userConversations'[reqs'[r].user].lastActivity = now
      ]_vars

\* C11 witness: a context with a persona and a history has been accessed
\* again, later than the process started, and is refreshed.
C11_Witness ==
    \E r \in DOMAIN reqs, u \in DOMAIN userConversations :
        /\ reqs[r].user = u
        /\ Count(reqs[r].events, {"store"}) = 1
        /\ userConversations[u].selectedPersona # NoPersona
        /\ userConversations[u].conversationHistory # <<>>
        /\ userConversations[u].lastActivity = now
        /\ now > StartNow

\* the map restricted to the contexts of `users`
Restrict(convs, users) == [u \in DOMAIN convs \cap users |-> convs[u]]

\* what the route of `req` does with it on arrival
Handled(req, convs) ==
    IF req.route = "POST /slack" THEN slackHandler(req, convs)
    ELSE webhookHandler(req, convs)

\* C12: under any interleaving of handlers of different users, a step of a
\* handler running for user A leaves every other user's context as it is
\* and creates none, and what it does to A's context and to its request is
\* what it would do if A's context were the only one in the store: the
\* persona and the history of a user come from that user's handlers alone.
C12_UserIsolation ==
    [][\A r \in DOMAIN reqs :
          reqs'[r] # reqs[r] =>
             LET a == IF reqs'[r].pc = "free" THEN UserOf(reqs[r].in.body)
                      ELSE UserOf(reqs'[r].in.body)
                 alone == Handled(NewRequest(reqs'[r].route, reqs'[r].in),
                                  Restrict(userConversations, {a}))
             IN  /\ \A u \in Users \ {a} :
                       /\ u \in DOMAIN userConversations' <=> u \in DOMAIN userConversations
                       /\ u \in DOMAIN userConversations
                             => userConversations'[u] = userConversations[u]
                 /\ Arrives(r) =>
                       /\ reqs'[r] = alone[1]
                       /\ Restrict(userConversations', {a}) = alone[2]
                 /\ (~Arrives(r) /\ a \in DOMAIN userConversations) =>
                       /\ userConversations'[a].selectedPersona
                             = userConversations[a].selectedPersona
                       /\ \/ userConversations'[a] = userConversations[a]
                          \/ userConversations'[a].conversationHistory
                                = Append(userConversations[a].conversationHistory,
                                         UserEntry(reqs[r].msg))
      ]_vars

\* C12 witness: both users have a persona of their own and a history, and a
\* handler of each is suspended at an await.
C12_Witness ==
    /\ DOMAIN userConversations = Users
    /\ userConversations["U1"].selectedPersona = "steve-jobs"
    /\ userConversations["U2"].selectedPersona = "fei-fei-li"
    /\ userConversations["U1"].conversationHistory # <<>>
    /\ userConversations["U2"].conversationHistory # <<>>
    /\ \A r \in DOMAIN reqs : reqs[r].pc \notin {"free", "done"}
    /\ UserOf(reqs[1].in.body) # UserOf(reqs[2].in.body)

-----------------------------------------------------------------------------
(* Claims about the REST routes and generateDebate.                        *)

\* C13: when the storage read fails, GET /api/agents answers no 500 but a
\* success with the fixed roster of 7: Einstein, Musk, Mostaque, Li,
\* da Vinci, Jobs, Disney.
C13_AgentsFallback ==
    \A r \in DOMAIN reqs :
        LET req == reqs[r] IN
        (/\ req.route = "GET /api/agents"
         /\ req.pc = "done"
         /\ Count(req.events, {"db_failed"}) > 0)
            => /\ Count(req.events, {"respond"}) = 1
               /\ req.events[Len(req.events)].k = "respond"
               /\ req.events[Len(req.events)].status = 200
               /\ req.events[Len(req.events)].body = RouteFallbackAgents

\* the calls of generateDebate that have returned
Debated == {r \in DOMAIN reqs : reqs[r].route = "generateDebate" /\ reqs[r].pc = "done"}

\* the result a call has returned
ResultOf(req) == req.events[Len(req.events)]

\* C14: generateDebate produces rounds x |speakers| turns in round-robin
\* order: turn k (from 0) has speaker speakers[k mod |speakers|] and the text
\* built with running index k; without speakers and rounds there are 2
\* turns, Albert Einstein then Steve Jobs; combinedText is the turns as
\* "*speaker:* text", joined by newlines, in the same order.
C14_RoundRobin ==
    \A r \in Debated :
        LET options == reqs[r].in
            result == ResultOf(reqs[r])
            speakers == IF options.speakers.given THEN options.speakers.v
                        ELSE <<"Albert Einstein", "Steve Jobs">>
            rounds == IF options.maxTurnsPerSpeaker.given
                      THEN options.maxTurnsPerSpeaker.v ELSE 1
            n == Len(speakers)
            rendered == [k \in DOMAIN result.turns |->
                            (IF k = 1 THEN <<>> ELSE <<10>>)
                                \o <<42>> \o Chars(result.turns[k].speaker)
                                \o <<58, 42, 32>> \o result.turns[k].text]
        IN  /\ result.k = "result"
            /\ Len(result.turns) = rounds * n
            /\ \A k \in 0 .. Len(result.turns) - 1 :
                  /\ result.turns[k + 1].speaker = speakers[(k % n) + 1]
                  /\ result.turns[k + 1].text
                        = craftPerspective(speakers[(k % n) + 1], options.topic, k)
            /\ (~options.speakers.given /\ ~options.maxTurnsPerSpeaker.given)
                  => /\ Len(result.turns) = 2
                     /\ result.turns[1].speaker = "Albert Einstein"
                     /\ result.turns[2].speaker = "Steve Jobs"
            /\ result.combinedText = Concat(rendered)

\* C14 witness: a debate of three speakers and two rounds has returned its
\* six turns.
C14_Witness ==
    \E r \in Debated :
        /\ Len(SpeakersOf(reqs[r].in)) = 3
        /\ MaxTurnsOf(reqs[r].in) = 2
        /\ Len(ResultOf(reqs[r]).turns) = 6
        /\ ResultOf(reqs[r]).turns[5].speaker = "Elon Musk"

\* C15: with includeAudio, generateDebate calls synthesizeSpeech once per
\* turn, one after the other in turn order; a turn whose synthesis gives a
\* fallback descriptor or throws is skipped and the loop goes on to the last
\* turn; audioBuffer is the audio of the turns that succeeded, concatenated
\* in turn order, and is absent when none succeeded or without includeAudio.
C15_AudioLoop ==
    \A r \in DOMAIN reqs :
        LET req == reqs[r]
            options == req.in
            events == req.events
            turns == Turns(options)
            steps == IF req.pc = "done" THEN Len(events) - 1 ELSE Len(events)
            wanted == options.includeAudio.given /\ options.includeAudio.v
            audioOf(i) == IF events[2 * i].k = "audio" THEN events[2 * i].bytes
                          ELSE <<>>
            all == Concat([i \in 1 .. Len(turns) |-> audioOf(i)])
        IN  (req.route = "generateDebate" /\ req.pc # "free") =>
              /\ steps <= 2 * Len(turns)
              /\ ~wanted => steps = 0
              /\ \A i \in 1 .. steps :
                    IF i % 2 = 1
                    THEN events[i] = Synth((i + 1) \div 2)
                    ELSE \/ events[i].k = "skipped"
                         \/ /\ events[i].k = "audio"
                            /\ events[i].bytes
                                  \in {AudioFor(TruncatedText(turns[i \div 2].text)),
                                       AudioFor(ShortText(turns[i \div 2].text))}
              /\ req.pc = "debate_audio" => calls[VoiceSlot].text = turns[(steps + 1) \div 2].text
              /\ req.pc = "done" =>
                    /\ wanted => steps = 2 * Len(turns)
                    /\ ResultOf(req).audioBuffer
                          = IF wanted /\ all # <<>>
                            THEN [present |-> TRUE, bytes |-> all]
                            ELSE [present |-> FALSE, bytes |-> <<>>]

\* C15 witness: a debate of three turns has returned with the audio of its
\* first and third turns, in that order, and its second turn skipped.
C15_Witness ==
    \E r \in Debated :
        LET events == reqs[r].events IN
        /\ Len(events) = 7
        /\ events[2].k = "audio"
        /\ events[4].k = "skipped"
        /\ events[6].k = "audio"
        /\ events[2].bytes # events[6].bytes
        /\ ResultOf(reqs[r]).audioBuffer.present
        /\ ResultOf(reqs[r]).audioBuffer.bytes = events[2].bytes \o events[6].bytes

-----------------------------------------------------------------------------
(* Claims about the voice selection.                                       *)

\* the keys of personaVoiceMap a normalized persona contains or is contained in
Containing(normalized) ==
    {i \in DOMAIN personaVoiceMap :
        \/ Includes(normalized, ToLowerCase(Chars(personaVoiceMap[i].name)))
        \/ Includes(ToLowerCase(Chars(personaVoiceMap[i].name)), normalized)}

\* C17: an explicit voiceId is used whenever given; otherwise the first
\* strategy that matches decides, in the order exact name, case-insensitive
\* name, alias table, containment in either direction; only when none
\* matches, the voice is Leonardo's if the persona contains "leonardo" and
\* Jobs' otherwise, also without persona and voiceId; every alias of the
\* table resolves to the voice of its canonical name.
C17_VoicePriority ==
    \A r \in DOMAIN reqs :
        LET req == reqs[r]
            persona == req.in.persona
            voiceId == req.in.voiceId
            id == req.events[1].id
            named == persona.given /\ persona.v # <<>>
            normalized == TrimChars(ToLowerCase(persona.v))
            exact == {i \in DOMAIN personaVoiceMap :
                          Chars(personaVoiceMap[i].name) = persona.v}
            insensitive == {i \in DOMAIN personaVoiceMap :
                          ToLowerCase(Chars(personaVoiceMap[i].name)) = normalized}
            alias == \E a \in DOMAIN FeiFeiAliases : FeiFeiAliases[a] = normalized
        IN  (req.pc = "done" /\ req.route = "selectedVoiceId") =>
              /\ IF voiceId.given /\ voiceId.v # "" THEN id = voiceId.v
                 ELSE IF ~named THEN id = "RScb7njQ3VwA2nyCsZX4"
                 ELSE IF exact # {} THEN \E i \in exact : id = personaVoiceMap[i].id
                 ELSE IF insensitive # {}
                      THEN \E i \in insensitive : id = personaVoiceMap[i].id
                 ELSE IF alias THEN id = "JL6vl3xyRi3Ly7WoywNO"
                 ELSE IF Containing(normalized) # {}
                      THEN \E i \in Containing(normalized) : id = personaVoiceMap[i].id
                 ELSE IF Includes(ToLowerCase(persona.v), Leonardo)
                      THEN id = "iLVmqjzCGGvqtMCk6vVQ"
                 ELSE id = "RScb7njQ3VwA2nyCsZX4"
              /\ (named /\ ~voiceId.given /\ alias) => id = VoiceOf("Fei-Fei Li")

(* SpecRace: one user sends while an earlier request of the same user is  *)
(* still in progress: two requests at once on one context.                 *)

\* the events of the racing user: a mention and a direct message
RaceEvents ==
    {[NoBody EXCEPT !.type = "event_callback", !.event = e] :
        e \in {[NoEvent EXCEPT !.type = "app_mention", !.user = Racer, !.hasText = TRUE,
                               !.text = <<"<@U0BOT>", " ", "hello">>],
               [NoEvent EXCEPT !.type = "message", !.user = Racer,
                               !.channel_type = "im", !.hasText = TRUE,
                               !.text = <<"hey">>]}}

RaceSlack(r) ==
    /\ reqs[r].pc = "free"
    /\ SlackArrives(r, RaceEvents, {[timestamp |-> NoHeader, signature |-> NoHeader]})

RaceWebhook(r) ==
    /\ reqs[r].pc = "free"
    /\ WebhookArrives(r, BodiesOf(Racer), FreshStamps, {"signed"})

InitRace ==
    /\ VoiceStart(OneAtATime)
    /\ signingSecret = Secret
    /\ botToken \in BOOLEAN
    /\ routes = registerSlackRoutes(signingSecret)
    /\ userConversations = NoConversations
    /\ reqs = [r \in Pair |-> FreeReq]

NextRace ==
    \E r \in Pair :
        \/ RaceSlack(r)
        \/ RaceWebhook(r)
        \/ PickerPosted(r)
        \/ ReplyPosted(r)
        \/ ApologyPosted(r)
        \/ EphemeralPosted(r)
        \/ Release(r)

SpecRace == InitRace /\ [][NextRace]_vars

-----------------------------------------------------------------------------
(* Claims about the handlers of one request.                               *)

\* the selected persona of a user in a store; none without a context
PersonaOf(convs, u) == IF u \in DOMAIN convs THEN convs[u].selectedPersona ELSE NoPersona

\* the history of a user in a store; empty without a context
HistoryOf(convs, u) == IF u \in DOMAIN convs THEN convs[u].conversationHistory ELSE <<>>

\* the bodies of the responses request `req` has sent
Answers(req) ==
    SelectSeq(req.events, LAMBDA e : e.k = "respond")

\* C21: a user's selectedPersona changes only through interactive actions:
\* select_persona with a chosen option sets it to that value, switch_persona
\* clears it; start_chat, continue_chat, generate_voice, every slash command
\* and every event leave it unchanged; so a /chat with text is answered as
\* persona p while p is selected, and with the picker while none is.
C21_PersonaSelection ==
    [][\A r \in DOMAIN reqs :
          LET req == reqs'[r]
              body == req.in.body
              action == body.payload.action
              u == UserOf(body)
              old == PersonaOf(userConversations, u)
              new == PersonaOf(userConversations', u)
              selects == req.via = "interactive" /\ action.id = "select_persona"
                             /\ action.option # ""
              switches == req.via = "interactive" /\ action.id = "switch_persona"
          IN  /\ ~Arrives(r) =>
                   \A v \in DOMAIN userConversations' :
                       PersonaOf(userConversations', v) = PersonaOf(userConversations, v)
              /\ Arrives(r) =>
                   /\ \A v \in DOMAIN userConversations' \ {u} :
                         PersonaOf(userConversations', v) = PersonaOf(userConversations, v)
                   /\ new = IF selects THEN action.option
                            ELSE IF switches THEN NoPersona
                            ELSE old
                   /\ (req.via = "command" /\ body.command = "/chat"
                           /\ Trim(body.text) # <<>>) =>
                         IF old = NoPersona
                         THEN /\ Answers(req) = <<Respond(200, "application/json",
                                                          "select_first")>>
                              /\ HistoryOf(userConversations', u)
                                    = HistoryOf(userConversations, u)
                         ELSE /\ Answers(req) = <<Respond(200, "text/html", "thinking")>>
                              /\ LET h == HistoryOf(userConversations', u)
                                 IN  /\ h[Len(h)].role = "assistant"
                                     /\ h[Len(h)].persona = old
                                     /\ h[Len(h)].content.name = FindTwin(old).name
      ]_vars

\* C21 witness: a user who has selected Steve Jobs has sent a /chat with text
\* and has been answered as Steve Jobs.
C21_Witness ==
    \E r \in DOMAIN reqs :
        LET u == UserOf(reqs[r].in.body)
            h == HistoryOf(userConversations, u)
        IN  /\ OnWebhook(reqs[r])
            /\ reqs[r].in.body.command = "/chat"
            /\ PersonaOf(userConversations, u) = "steve-jobs"
            /\ Answers(reqs[r]) = <<Respond(200, "text/html", "thinking")>>
            /\ Len(h) = 2
            /\ h[2].role = "assistant"
            /\ h[2].persona = "steve-jobs"
            /\ h[2].content.name = "Steve Jobs"

\* the kinds of the events of a request, in order
Kinds(req) == [i \in DOMAIN req.events |-> req.events[i].k]

\* request `req` is a handled /chat command
IsChat(req) == OnWebhook(req) /\ req.via = "command" /\ req.in.body.command = "/chat"

\* C22: a /chat with empty text, or with text but no selected persona, is
\* answered synchronously with the persona picker; history and selected
\* persona stay as they are and no outbound call is made.  With text and a
\* selected persona the acknowledgment is sent first, and only then the
\* history grows by exactly two entries, the user message and the assistant
\* response, and one message with action buttons is posted to the channel.
C22_ChatRouting ==
    [][\A r \in DOMAIN reqs :
          LET req == reqs'[r]
              body == req.in.body
              u == body.user_id
              message == Trim(body.text)
              old == PersonaOf(userConversations, u)
              before == HistoryOf(userConversations, u)
              after == HistoryOf(userConversations', u)
          IN  IsChat(req) =>
                IF Arrives(r)
                THEN /\ PersonaOf(userConversations', u) = old
                     /\ IF message = <<>> \/ old = NoPersona
                        THEN /\ req.pc = "done"
                             /\ Kinds(req) = <<"store", "respond">>
                             /\ req.events[2].status = 200
                             /\ req.events[2].body
                                   = (IF message = <<>> THEN "choose_persona"
                                      ELSE "select_first")
                             /\ after = before
                        ELSE /\ Kinds(req) = <<"store", "respond", "pushed">>
                                    \o (IF botToken THEN <<"out">> ELSE <<>>)
                             /\ req.events[2] = Respond(200, "text/html", "thinking")
                             /\ botToken => req.events[4] = Out("chat.postMessage", "reply")
                             /\ Len(after) = Len(before) + 2
                             /\ SubSeq(after, 1, Len(before)) = before
                             /\ after[Len(before) + 1] = [role |-> "user", content |-> message]
                             /\ after[Len(before) + 2].role = "assistant"
                             /\ after[Len(before) + 2].content.about = message
                ELSE \* the steps after the post: nothing is stored or answered
                     /\ after = before
                     /\ PersonaOf(userConversations', u) = old
                     /\ Count(req.events, {"respond", "pushed"})
                           = Count(reqs[r].events, {"respond", "pushed"})
                     /\ Count(SelectSeq(req.events, LAMBDA e : e.k = "out" /\ e.what = "reply"),
                              {"out"}) <= 1
      ]_vars

\* C22 witness: a /chat with text of a user with a selected persona is over:
\* acknowledged, then stored, then posted with the bot token.
C22_Witness ==
    \E r \in DOMAIN reqs :
        /\ IsChat(reqs[r])
        /\ reqs[r].pc = "done"
        /\ Kinds(reqs[r]) = <<"store", "respond", "pushed", "out">>
        /\ reqs[r].events[4].what = "reply"
        /\ Len(HistoryOf(userConversations, reqs[r].user)) = 2

\* request `req` is an app_mention with text left after cleaning, or a direct
\* message that no bot has sent
IsConversation(req) ==
    LET event == req.in.body.event IN
    /\ OnSlack(req)
    /\ req.in.body.type = "event_callback"
    /\ \/ event.type = "app_mention" /\ event.hasText /\ CleanText(event.text) # <<>>
       \/ event.type = "message" /\ event.channel_type = "im" /\ ~event.bot

\* the message of such an event
MessageOf(event) ==
    IF event.type = "app_mention" THEN CleanText(event.text) ELSE event.text

\* C23: for an app_mention with non-empty cleaned text and for a non-bot
\* direct message: without a selected persona, when the handler completes,
\* the persona choices have been presented and the history has grown by
\* exactly one entry, the user's message, and by no assistant entry; with a
\* selected persona the history has grown by the user entry followed by the
\* assistant entry tagged with that persona, and the response has been posted.
C23_EventFlow ==
    [][\A r \in DOMAIN reqs :
          LET req == reqs'[r]
              event == req.in.body.event
              u == event.user
              message == MessageOf(event)
              old == PersonaOf(userConversations, u)
              before == HistoryOf(userConversations, u)
              after == HistoryOf(userConversations', u)
              completes == reqs[r].pc # "done" /\ req.pc = "done"
                               /\ Count(req.events, {"failed"}) = 0
          IN  IsConversation(req) =>
                /\ Arrives(r) =>
                      IF old = NoPersona
                      THEN /\ after = before
                           /\ req.pc = "pick_post"
                           /\ Kinds(req) = <<"respond", "store">>
                                  \o (IF botToken THEN <<"out">> ELSE <<>>)
                      ELSE /\ after = before \o
                                 <<[role |-> "user", content |-> message],
                                   [role |-> "assistant",
                                    content |-> generatePersonaResponse(old, message),
                                    persona |-> old]>>
                           /\ req.pc = "reply_post"
                           /\ Kinds(req) = <<"respond", "store", "pushed">>
                                  \o (IF botToken THEN <<"out">> ELSE <<>>)
                /\ (~Arrives(r) /\ reqs[r].pc # "pick_post") => after = before
                /\ completes =>
                      IF reqs[r].pc = "pick_post"
                      THEN /\ after = before \o <<[role |-> "user", content |-> message]>>
                           /\ botToken => req.events[3] = Out("chat.postMessage", "picker")
                           /\ Kinds(req)[Len(req.events)] = "pushed"
                      ELSE /\ reqs[r].pc = "reply_post"
                           /\ botToken => req.events[4] = Out("chat.postMessage", "reply")
      ]_vars

\* C23 witness: the handler of a mention by a user without a selected persona
\* has completed: the choices were posted, then the message was stored.
C23_Witness ==
    \E r \in DOMAIN reqs :
        LET event == reqs[r].in.body.event IN
        /\ IsConversation(reqs[r])
        /\ event.type = "app_mention"
        /\ reqs[r].pc = "done"
        /\ Kinds(reqs[r]) = <<"respond", "store", "out", "pushed">>
        /\ reqs[r].events[3].what = "picker"
        /\ HistoryOf(userConversations, event.user)
              = <<[role |-> "user", content |-> <<"hello">>]>>

\* request `req` carries an event that is ignored: of unknown type, a message
\* outside a direct conversation, or a direct message of a bot
IsIgnored(req) ==
    LET event == req.in.body.event IN
    /\ OnSlack(req)
    /\ req.in.body.type = "event_callback"
    /\ event.type \notin {"none", "app_mention"}
    /\ event.type = "message" => (event.channel_type # "im" \/ event.bot)

\* C24: an ignored event creates no conversation context, changes no
\* existing one, not even its lastActivity, and causes no outbound Slack
\* call; the request is still acknowledged with 200.
C24_IgnoredEvents ==
    [][\A r \in DOMAIN reqs :
          (Arrives(r) /\ IsIgnored(reqs'[r])) =>
              /\ userConversations' = userConversations
              /\ reqs'[r].pc = "done"
              /\ reqs'[r].events = <<Respond(200, "text/plain", "OK")>>
      ]_vars

\* C24 witness: a bot's direct message in the name of a user has been
\* handled; the user's context is older than the request.
C24_Witness ==
    \E r \in DOMAIN reqs :
        LET event == reqs[r].in.body.event IN
        /\ IsIgnored(reqs[r])
        /\ event.type = "message"
        /\ event.bot
        /\ reqs[r].pc = "done"
        /\ event.user \in DOMAIN userConversations
        /\ userConversations[event.user].lastActivity < now

\* request `req` is a handled /debate command with a topic
IsDebate(req) ==
    /\ OnWebhook(req)
    /\ req.via = "command"
    /\ req.in.body.command = "/debate"
    /\ Trim(req.in.body.text) # <<>>

\* the positions in the events of `req` of the outbound calls of `what`
OutAt(req, what) ==
    {i \in DOMAIN req.events : req.events[i].k = "out" /\ req.events[i].what = what}

\* C25: a /debate with a topic is acknowledged first; afterwards the debate
\* is generated and its combined text is posted to the channel, and the
\* audio of its turns is synthesized and, when a turn succeeded, uploaded as
\* a file (never when it has 24,000,000 bytes or more).
C25_DebateAudio ==
    \A r \in DOMAIN reqs :
        LET req == reqs[r] IN
        (IsDebate(req) /\ botToken) =>
            /\ req.events[1] = Respond(200, "text/html", "generating")
            /\ OutAt(req, "debate") = {2}
            /\ (req.pc = "done" /\ Count(req.events, {"failed"}) = 0) =>
                  \/ OutAt(req, "debate_audio") # {}
                  \/ Count(req.events, {"synth"}) > 0

-----------------------------------------------------------------------------
(* Claims about the conversation store over time.                          *)

\* history `h` is the beginning of history `g`
IsPrefix(h, g) == Len(h) <= Len(g) /\ SubSeq(g, 1, Len(h)) = h

\* C26: the store only grows: a user that has a context has one in every
\* later state, and what a history held stays where it was, new entries
\* coming after it: every earlier history is a prefix of every later one.
C26_StoreGrows ==
    [][\A u \in DOMAIN userConversations :
          /\ u \in DOMAIN userConversations'
          /\ IsPrefix(HistoryOf(userConversations, u),
                      HistoryOf(userConversations', u))]_vars

\* the racing user's history was appended to by two requests in progress at
\* once: an exchange, then the message of an earlier request that was
\* waiting for the persona choices to be posted
C26_Witness ==
    LET h == HistoryOf(userConversations, Racer) IN
    /\ Len(h) = 3
    /\ h[1].role = "user" /\ h[2].role = "assistant" /\ h[3].role = "user"
    /\ h[3].content # h[1].content

-----------------------------------------------------------------------------
(* Claims about the generate_voice action.                                 *)

\* request `req` is a handled generate_voice action
IsVoice(req) ==
    /\ OnWebhook(req)
    /\ req.via = "interactive"
    /\ req.in.body.payload.action.id = "generate_voice"

\* what the outbound calls of `req` were about, in order
Outbound(req) ==
    LET outs == SelectSeq(req.events, LAMBDA e : e.k = "out")
    IN  [i \in DOMAIN outs |-> outs[i].what]

\* no user's selected persona or history differs after the step
SameConversations ==
    \A u \in Users \cup {Racer} :
        /\ PersonaOf(userConversations', u) = PersonaOf(userConversations, u)
        /\ HistoryOf(userConversations', u) = HistoryOf(userConversations, u)

\* the step in which synthesizeSpeech returns to request r
Returns(r) == reqs[r].pc = "voice_wait" /\ reqs'[r].pc # "voice_wait"

\* C27 as stated: a generate_voice action calls synthesizeSpeech exactly once
\* and then makes exactly one outbound call, the upload of the audio or the
\* ephemeral "voice unavailable" notice for a fallback; it changes neither
\* the selected persona nor the history.
C27_VoiceAction ==
    [][\A r \in DOMAIN reqs :
          (IsVoice(reqs'[r]) /\ botToken) =>
             /\ SameConversations
             /\ Returns(r) =>
                   reqs'[r].events[Len(reqs'[r].events)] =
                       IF calls[VoiceSlot].result.kind = "audio"
                       THEN Out("files.upload", "voice")
                       ELSE Out("chat.postEphemeral", "voice_unavailable")
             /\ reqs'[r].pc = "done" =>
                   /\ Count(reqs'[r].events, {"call"}) = 1
                   /\ Len(Outbound(reqs'[r])) = 1
      ]_vars

\* C27 amended: a generate_voice action calls synthesizeSpeech once, or not
\* at all when parsing action.value throws; the outbound call after an audio
\* result is the upload, after a fallback the "voice unavailable" notice;
\* when parsing throws or that call fails, the "couldn't generate" notice is
\* posted, as the only outbound call or as a second one after the failed
\* one; the selected persona and the history stay as they are.
C27_VoiceActionOrNotice ==
    [][\A r \in DOMAIN reqs :
          (IsVoice(reqs'[r]) /\ botToken) =>
             LET req == reqs'[r]
                 parsed == req.in.body.payload.action.value.json # "bad"
             IN
             /\ SameConversations
             /\ Returns(r) =>
                   req.events[Len(req.events)] =
                       IF calls[VoiceSlot].result.kind = "audio"
                       THEN Out("files.upload", "voice")
                       ELSE Out("chat.postEphemeral", "voice_unavailable")
             /\ req.pc = "done" =>
                   /\ Count(req.events, {"call"}) = IF parsed THEN 1 ELSE 0
                   /\ Outbound(req) \in
                         IF ~parsed THEN {<<"voice_error">>}
                         ELSE IF Count(req.events, {"failed"}) = 0
                         THEN {<<"voice">>, <<"voice_unavailable">>}
                         ELSE {<<"voice", "voice_error">>,
                               <<"voice_unavailable", "voice_error">>}
      ]_vars

\* both deliveries have happened: an upload of audio that failed and was
\* followed by the notice of the catch block
C27_Witness ==
    \E r \in DOMAIN reqs :
        /\ IsVoice(reqs[r])
        /\ reqs[r].pc = "done"
        /\ Count(reqs[r].events, {"call"}) = 1
        /\ Outbound(reqs[r]) = <<"voice", "voice_error">>

-----------------------------------------------------------------------------
(* Claims about requests of one user in progress at once.                  *)

\* the positions of the assistant entries in history `h`
Replies(h) == {i \in DOMAIN h : h[i].role = "assistant"}

\* C28: whatever the interleaving of the handlers of one user, a /chat, a
\* mention or a direct message racing with select_persona or
\* switch_persona, every assistant entry carries the persona its text was
\* generated as: never none, never another one.
C28_PersonaTag ==
    \A u \in DOMAIN userConversations :
        LET h == HistoryOf(userConversations, u) IN
        \A i \in Replies(h) :
            /\ h[i].persona # NoPersona
            /\ h[i].content.reply = "as"
            /\ h[i].content.name = FindTwin(h[i].persona).name

\* while the post of the racing user's reply is awaited, another request of
\* that user has selected another persona
C28_Witness ==
    LET h == HistoryOf(userConversations, Racer) IN
    /\ Len(h) > 0
    /\ h[Len(h)].role = "assistant"
    /\ PersonaOf(userConversations, Racer) \notin {NoPersona, h[Len(h)].persona}
    /\ \E r \in DOMAIN reqs : reqs[r].pc = "reply_post"

\* C29: whatever the interleaving of the handlers of one user, each
\* assistant entry comes right after the user entry it answers: the two
\* entries of an exchange are appended together, and entries of another
\* exchange never come between them.
C29_PairsAdjacent ==
    \A u \in DOMAIN userConversations :
        LET h == HistoryOf(userConversations, u) IN
        \A i \in Replies(h) :
            /\ i > 1
            /\ h[i - 1].role = "user"
            /\ h[i - 1].content = h[i].content.about

\* two exchanges of the racing user about different messages, the posts of
\* both replies still awaited
C29_Witness ==
    LET h == HistoryOf(userConversations, Racer) IN
    /\ \A r \in DOMAIN reqs : reqs[r].pc = "reply_post"
    /\ Len(h) >= 4
    /\ \E i, j \in Replies(h) : h[i].content.about # h[j].content.about

-----------------------------------------------------------------------------
(* Claims about the scripted conversation.                                 *)

\* the loops that go on speaking: running, and not stopped
Speaking(all) == {l \in Loops : Running(all[l]) /\ ~all[l].stopped}

\* C30: a scripted conversation makes at most 6 synthesizeSpeech calls, the
\* speakers alternating from Leonardo da Vinci; when startConversation
\* returns isConversationActive is false; a loop makes no call after
\* stopConversation was called, also when startConversation is called again
\* before the loop looks at the flag; at most one loop goes on speaking.
C30_ScriptedConversation ==
    [][/\ \A l \in Loops :
            /\ Len(loops'[l].spoke) <= ScriptLines
            /\ \A i \in DOMAIN loops'[l].spoke :
                  loops'[l].spoke[i].persona = scriptSpeakers[((i - 1) % 2) + 1]
            /\ (loops[l].pc # "done" /\ loops'[l].pc = "done") =>
                  ~isConversationActive'
            /\ loops[l].stopped => loops'[l].spoke = loops[l].spoke
       /\ Cardinality(Speaking(loops')) <= 1
      ]_vars

====
